---- MODULE Spec2Model ----
(***************************************************************************)
(* Access-controlled search and ranking engine of the enterprise search    *)
(* pipeline (pipeline/connectors/astra_db_connector.py).                   *)
(*                                                                         *)
(* Text is modelled as a sequence of one-character strings, so that        *)
(* lower(), strip(), split(), substring tests and slicing are computed the *)
(* way Python computes them.  The document store is the sequence of        *)
(* inserted documents; last_sync_updated is a logical clock.               *)
(***************************************************************************)
EXTENDS Integers, Sequences, FiniteSets, TLC

\* ------------------------------------------------------------------------
\* Bounds of the model
\* ------------------------------------------------------------------------
MaxDocs == 2

MaxLimit == 2

MaxLog == 1

MaxWords == 2

\* the longer of the two snippet lengths the model asks for
MaxSnippet == 8

\* calls of a tracking method beyond the capacity of its history
MaxExtra == 2

\* ------------------------------------------------------------------------
\* Python string primitives
\* ------------------------------------------------------------------------
UpperAlpha ==
  <<"A","B","C","D","E","F","G","H","I","J","K","L","M",
    "N","O","P","Q","R","S","T","U","V","W","X","Y","Z">>

LowerAlpha ==
  <<"a","b","c","d","e","f","g","h","i","j","k","l","m",
    "n","o","p","q","r","s","t","u","v","w","x","y","z">>

Digits == {"0","1","2","3","4","5","6","7","8","9"}

Range(s) == { s[i] : i \in DOMAIN s }

\* the lower-case letter of each upper-case letter
LowerOf == [c \in Range(UpperAlpha) |-> LowerAlpha[CHOOSE i \in 1..26 : UpperAlpha[i] = c]]

\* str.lower() on one character
LowerChar(c) == IF c \in DOMAIN LowerOf THEN LowerOf[c] ELSE c

\* str.lower()
Lower(s) == [i \in DOMAIN s |-> LowerChar(s[i])]

IsSpace(c) == c \in {" ", "\t", "\n"}

\* the character class [\w@.-] of the tokenizer's regular expression
TokenChars == Range(UpperAlpha) \cup Range(LowerAlpha) \cup Digits \cup {"_", "@", ".", "-"}

IsTokenChar(c) == c \in TokenChars

RECURSIVE LStrip(_)
LStrip(s) ==
  IF s = <<>> THEN s
  ELSE IF IsSpace(Head(s)) THEN LStrip(Tail(s)) ELSE s

RECURSIVE RStrip(_)
RStrip(s) ==
  IF s = <<>> THEN s
  ELSE IF IsSpace(s[Len(s)]) THEN RStrip(SubSeq(s, 1, Len(s) - 1)) ELSE s

\* str.strip()
Strip(s) == RStrip(LStrip(s))

\* s[:n]
Take(s, n) == SubSeq(s, 1, IF n < Len(s) THEN n ELSE Len(s))

\* needle in hay   (substring test; the empty string is in every string)
Contains(needle, hay) ==
  \E i \in 0..(Len(hay) - Len(needle)) :
     SubSeq(hay, i + 1, i + Len(needle)) = needle

\* x in list
InList(x, list) == \E i \in DOMAIN list : list[i] = x

\* sep.join(parts)
RECURSIVE Join(_, _)
Join(parts, sep) ==
  IF parts = <<>> THEN <<>>
  ELSE IF Len(parts) = 1 THEN parts[1]
  ELSE parts[1] \o sep \o Join(Tail(parts), sep)

\* str.split(): split on runs of whitespace, no empty words
RECURSIVE SplitAcc(_, _, _)
SplitAcc(s, cur, acc) ==
  IF s = <<>> THEN (IF cur = <<>> THEN acc ELSE Append(acc, cur))
  ELSE IF IsSpace(Head(s))
         THEN SplitAcc(Tail(s), <<>>, IF cur = <<>> THEN acc ELSE Append(acc, cur))
         ELSE SplitAcc(Tail(s), Append(cur, Head(s)), acc)

Split(s) == SplitAcc(s, <<>>, <<>>)

\* re.split(r'[^\w@.-]', s): every non-token character is a delimiter, empty
\* pieces are kept
RECURSIVE ReSplitAcc(_, _, _)
ReSplitAcc(s, cur, acc) ==
  IF s = <<>> THEN Append(acc, cur)
  ELSE IF IsTokenChar(Head(s))
         THEN ReSplitAcc(Tail(s), Append(cur, Head(s)), acc)
         ELSE ReSplitAcc(Tail(s), <<>>, Append(acc, cur))

ReSplit(s) == ReSplitAcc(s, <<>>, <<>>)

\* ------------------------------------------------------------------------
\* normalize_email / normalize_email_list
\* ------------------------------------------------------------------------
AT == <<"@">>

\* variant: the e-mail is stripped but keeps its case
normalize_email_KeepsCase(email) ==
  IF email = <<>> \/ ~Contains(AT, email) THEN <<>>
  ELSE Strip(email)

\* normalize_email: "" for a missing e-mail or one without '@', else
\* lower().strip()
normalize_email(email) ==
  IF email = <<>> \/ ~Contains(AT, email) THEN <<>>
  ELSE Strip(Lower(email))

RECURSIVE NormalizeAcc(_, _)
NormalizeAcc(emails, normalized) ==
  IF emails = <<>> THEN normalized
  ELSE LET norm_email == normalize_email(Head(emails))
       IN  NormalizeAcc(Tail(emails),
             IF norm_email # <<>> /\ ~InList(norm_email, normalized)
               THEN Append(normalized, norm_email)
               ELSE normalized)

normalize_email_list(emails) == NormalizeAcc(emails, <<>>)

\* ------------------------------------------------------------------------
\* Input records of the ingestion path (doc_data) used by the model
\* ------------------------------------------------------------------------
SP == <<" ">>

\* the texts of the model: e-mails, words, tools, queries
Text ==
  [
   \* actor and author e-mails
   e_a |-> <<"a","@","x">>,
   \* the same mailbox as e_a, written with another case and a trailing blank
   e_A |-> <<"A","@","x"," ">>,
   e_b |-> <<"b","@","x">>,
   \* a non-empty actor string without '@'
   e_bob |-> <<"b","o","b">>,
   \* words of titles and contents
   w_plan |-> <<"p","l","a","n">>,
   w_Plan |-> <<"P","l","a","n">>,
   w_data |-> <<"d","a","t","a">>,
   w_zz |-> <<"z","z">>,
   w_q3 |-> <<"Q","3">>,
   \* tool and file type
   t_drive |-> <<"g","d">>,
   t_file |-> <<"f">>,
   \* queries
   q_empty |-> <<>>,
   q_phrase |-> <<"p","l","a","n"," ","d","a","t","a">>,
   q_Plan |-> <<"P","l","a","n">>,
   q_q3 |-> <<"Q","3">>,
   \* a query of blanks and one-character words only
   q_short |-> <<" ","a"," ","x">>,
   \* a query for which the spell corrector has three rewrites
   q_api |-> <<"a", "p", "i">>,
   \* words the spell corrector has variations for
   w_UI |-> <<"U", "I">>,
   w_ux |-> <<"u", "x">>,
   w_doc |-> <<"d", "o", "c">>
  ]

UNKNOWN_AUTHOR == <<"u","n","k","n","o","w","n","@","d","o","m","a","i","n",".","c","o","m">>

\* title "data Plan", content "plan plan zz": matches the query "plan data"
\* by its tokens only
DocData1 ==
  [id |-> "d1", title |-> Text.w_data \o SP \o Text.w_Plan,
   content |-> Text.w_plan \o SP \o Text.w_plan \o SP \o Text.w_zz,
   tool |-> Text.t_drive, integration_type |-> Text.t_drive, file_url |-> <<>>,
   user_emails_with_access |-> <<Text.e_a>>, external_user_id |-> "ext1",
   account_id |-> "acc1", author_email |-> Text.e_a, author |-> <<>>,
   type |-> <<>>, path |-> <<>>, sync_successful |-> TRUE]

\* title "zz", content "plan data zz": contains the phrase "plan data"; the
\* ingestion flag is unset and the content is longer than 10 characters
DocData2 ==
  [id |-> "d2", title |-> Text.w_zz, content |-> Text.w_plan \o SP \o Text.w_data \o SP \o Text.w_zz,
   tool |-> Text.t_drive, integration_type |-> Text.t_drive, file_url |-> <<>>,
   user_emails_with_access |-> <<Text.e_A, Text.e_b>>, external_user_id |-> "ext1",
   account_id |-> "acc1", author_email |-> Text.e_b, author |-> <<>>,
   type |-> Text.t_file, path |-> <<>>, sync_successful |-> FALSE]

\* title "Plan Q3", no content, failed sync, no author e-mail
DocData3 ==
  [id |-> "d3", title |-> Text.w_Plan \o SP \o Text.w_q3, content |-> <<>>,
   tool |-> Text.t_drive, integration_type |-> Text.t_drive, file_url |-> <<>>,
   user_emails_with_access |-> <<Text.e_A, Text.e_b>>, external_user_id |-> "ext2",
   account_id |-> "acc2", author_email |-> <<>>, author |-> Text.e_bob,
   type |-> <<>>, path |-> <<>>, sync_successful |-> FALSE]

DocInputs == {DocData1, DocData2, DocData3}

\* ------------------------------------------------------------------------
\* store_document
\* ------------------------------------------------------------------------
MAX_CONTENT_SIZE == 4000

\* author e-mail extraction of store_document
ExtractAuthorEmail(doc_data) ==
  LET author_email == IF doc_data.author_email # <<>> THEN doc_data.author_email
                      ELSE doc_data.author
  IN  IF author_email = <<>> \/ ~Contains(AT, author_email)
        THEN (IF doc_data.user_emails_with_access # <<>>
                THEN doc_data.user_emails_with_access[1]
                ELSE UNKNOWN_AUTHOR)
        ELSE author_email

\* variant: the access list is stored as given, without normalization
AuthorizedEmails_Raw(doc_data, author_email) ==
  LET authorized_emails == doc_data.user_emails_with_access
  IN  IF author_email # <<>> /\ ~InList(author_email, authorized_emails)
        THEN Append(authorized_emails, author_email)
        ELSE authorized_emails

\* the access list: the input list, the author appended when missing, then
\* normalized
AuthorizedEmails(doc_data, author_email) ==
  LET authorized_emails == doc_data.user_emails_with_access
  IN  normalize_email_list(
        IF author_email # <<>> /\ ~InList(author_email, authorized_emails)
          THEN Append(authorized_emails, author_email)
          ELSE authorized_emails)

\* sync status: the ingestion flag, else "content longer than 10 characters"
SyncStatus(doc_data) ==
  IF doc_data.sync_successful THEN TRUE
  ELSE doc_data.content # <<>> /\ Len(Strip(doc_data.content)) > 10

\* the document built by _store_single_document
_store_single_document(doc_data, title, content, author_email, sync_status, current_timestamp) ==
  LET authorized_emails == AuthorizedEmails(doc_data, author_email)
  IN  [id |-> doc_data.id,
       title |-> title,
       content |-> content,
       tool |-> doc_data.tool,
       sync_status |-> sync_status,
       last_sync_updated |-> current_timestamp,
       integration_type |-> doc_data.integration_type,
       file_url |-> doc_data.file_url,
       user_emails_with_access |-> authorized_emails,
       external_user_id |-> doc_data.external_user_id,
       account_id |-> doc_data.account_id,
       author_email |-> author_email,
       access_control |->
         [account_id |-> doc_data.account_id,
          external_user_id |-> doc_data.external_user_id,
          authorized_emails |-> authorized_emails],
       is_chunked |-> FALSE,
       metadata |-> [author |-> doc_data.author, type |-> doc_data.type,
                     path |-> doc_data.path],
       searchable_text |-> Take(Strip(title \o SP \o content), 8000)]

\* ------------------------------------------------------------------------
\* The store's query language (the part of it the search uses)
\* ------------------------------------------------------------------------
\* dict.get(key, default)
Get(d, key, default) == IF key \in DOMAIN d THEN d[key] ELSE default

\* the values a (possibly dotted) field path selects in a document; a scalar
\* field selects one value, an array field its elements
DocField(doc, field) ==
  CASE field = "account_id" -> <<doc.account_id>>
    [] field = "external_user_id" -> <<doc.external_user_id>>
    [] field = "access_control.external_user_id" -> <<doc.access_control.external_user_id>>
    [] field = "access_control.authorized_emails" -> doc.access_control.authorized_emails
    [] field = "user_emails_with_access" -> doc.user_emails_with_access
    [] field = "author_email" -> <<doc.author_email>>
    [] field = "tool" -> <<doc.tool>>
    [] field = "metadata.author" -> <<doc.metadata.author>>
    [] field = "metadata.type" -> <<doc.metadata.type>>
    [] field = "last_sync_updated" -> <<doc.last_sync_updated>>

\* one condition {field: {op: val}}; val is always kept as a list
AtomHolds(doc, atom) ==
  LET vals == DocField(doc, atom.field)
  IN  CASE atom.op \in {"$eq", "$in"} ->
             \E i \in DOMAIN vals, j \in DOMAIN atom.val : vals[i] = atom.val[j]
        [] atom.op = "$gte" -> vals[1] >= atom.val[1]
        [] atom.op = "$lte" -> vals[1] <= atom.val[1]

\* a dict of conditions: all of them hold
ClauseHolds(doc, clause) == \A i \in DOMAIN clause : AtomHolds(doc, clause[i])

\* {"$or": [clause, ...]}
OrHolds(doc, clauses) == \E i \in DOMAIN clauses : ClauseHolds(doc, clauses[i])

\* does the document satisfy the filter?  A filter is the dict built by
\* search_documents: the key sync_status (present with value True, or
\* absent), the plain field keys, the key $or and the key $and (a list of
\* {"$or": ...} dicts)
StoreMatches(doc, filter) ==
  /\ filter.sync_status => doc.sync_status = TRUE
  /\ ClauseHolds(doc, filter.fields)
  /\ OrHolds(doc, filter.or)
  /\ \A i \in DOMAIN filter.and : OrHolds(doc, filter.and[i])

\* variant: an item is inserted before the items of equal key
RECURSIVE InsertDesc_Unstable(_, _)
InsertDesc_Unstable(sorted, p) ==
  IF sorted = <<>> THEN <<p>>
  ELSE IF Head(sorted)[1] > p[1]
         THEN <<Head(sorted)>> \o InsertDesc_Unstable(Tail(sorted), p)
         ELSE <<p>> \o sorted

\* stable sort by descending key of a list of <<key, item>> pairs
RECURSIVE InsertDesc(_, _)
InsertDesc(sorted, p) ==
  IF sorted = <<>> THEN <<p>>
  ELSE IF Head(sorted)[1] >= p[1]
         THEN <<Head(sorted)>> \o InsertDesc(Tail(sorted), p)
         ELSE <<p>> \o sorted

RECURSIVE SortPairsDesc(_)
SortPairsDesc(ps) ==
  IF ps = <<>> THEN <<>>
  ELSE InsertDesc(SortPairsDesc(SubSeq(ps, 1, Len(ps) - 1)), ps[Len(ps)])

\* list.sort(key=..., reverse=True) for the key relevance_score (default 0)
SortByScoreDesc(list) ==
  LET sorted == SortPairsDesc([i \in DOMAIN list |->
                                 <<Get(list[i], "relevance_score", 0), list[i]>>])
  IN  [i \in DOMAIN sorted |-> sorted[i][2]]

\* ... and for the key last_sync_updated
SortByDateDesc(list) ==
  LET sorted == SortPairsDesc([i \in DOMAIN list |->
                                 <<list[i].last_sync_updated, list[i]>>])
  IN  [i \in DOMAIN sorted |-> sorted[i][2]]

\* list[skip : skip + limit]
Slice(list, skip, limit) ==
  SubSeq(list, skip + 1, IF skip + limit < Len(list) THEN skip + limit ELSE Len(list))

PROJECTION ==
  {"_id", "title", "content", "searchable_text", "tool", "metadata", "sync_status",
   "author_email", "last_sync_updated", "account_id", "integration_type",
   "file_url", "user_emails_with_access", "is_chunked"}

Project(doc, projection) == [f \in (DOMAIN doc) \cap projection |-> doc[f]]

\* variant: the store ignores the limit
Find_NoLimit(collection, filter, limit, skip) ==
  LET StoreMatch(doc) == StoreMatches(doc, filter)
  IN  Slice(SortByDateDesc(SelectSeq(collection, StoreMatch)), skip, Len(collection))

\* collection.find(filter, sort={"last_sync_updated": -1}, limit, skip)
Find(collection, filter, limit, skip) ==
  LET StoreMatch(doc) == StoreMatches(doc, filter)
  IN  Slice(SortByDateDesc(SelectSeq(collection, StoreMatch)), skip, limit)

\* ------------------------------------------------------------------------
\* search_documents: the access filter
\* ------------------------------------------------------------------------
Atom(field, op, val) == [field |-> field, op |-> op, val |-> val]

\* filters=None behaves as a dict all of whose options are falsy; an option
\* is falsy when it is "" / [] / 0 / False
NoFilters ==
  [external_user_id |-> "", account_id |-> "", apps |-> <<>>, author |-> <<>>,
   file_types |-> <<>>, from_date |-> 0, to_date |-> 0, include_failed_sync |-> FALSE]

\* the triple-verification $or (new structure, legacy structure)
ScopedOr(filters, user_email_normalized) ==
  << << Atom("access_control.external_user_id", "$eq", <<filters.external_user_id>>),
        Atom("access_control.authorized_emails", "$in", <<user_email_normalized>>) >>,
     << Atom("external_user_id", "$eq", <<filters.external_user_id>>),
        Atom("user_emails_with_access", "$in", <<user_email_normalized>>) >> >>

\* the basic e-mail $or (access list, author)
BasicOr(user_email_normalized) ==
  << << Atom("user_emails_with_access", "$in", <<user_email_normalized>>) >>,
     << Atom("author_email", "$eq", <<user_email_normalized>>) >> >>

\* variant: the base filter without the sync_status requirement
AccessPart_Unsynced(user_email_normalized, filters) ==
  IF filters.external_user_id # "" /\ filters.account_id # ""
    THEN [sync_status |-> FALSE,
          fields |-> << Atom("account_id", "$eq", <<filters.account_id>>) >>,
          or |-> ScopedOr(filters, user_email_normalized),
          and |-> <<>>]
    ELSE [sync_status |-> FALSE,
          fields |-> <<>>,
          or |-> BasicOr(user_email_normalized),
          and |-> <<>>]

\* the access part of the filter
AccessPart(user_email_normalized, filters) ==
  IF filters.external_user_id # "" /\ filters.account_id # ""
    THEN [sync_status |-> TRUE,
          fields |-> << Atom("account_id", "$eq", <<filters.account_id>>) >>,
          or |-> ScopedOr(filters, user_email_normalized),
          and |-> <<>>]
    ELSE [sync_status |-> TRUE,
          fields |-> <<>>,
          or |-> BasicOr(user_email_normalized),
          and |-> <<>>]

\* the additional (optional) filters
AdditionalFilters(access_filter, filters) ==
  [sync_status |-> IF filters.include_failed_sync THEN FALSE
                   ELSE access_filter.sync_status,
   fields |-> access_filter.fields
      \o (IF filters.apps # <<>> THEN <<Atom("tool", "$in", filters.apps)>> ELSE <<>>)
      \o (IF filters.file_types # <<>>
            THEN <<Atom("metadata.type", "$in", filters.file_types)>> ELSE <<>>)
      \o (IF filters.from_date # 0
            THEN <<Atom("last_sync_updated", "$gte", <<filters.from_date>>)>> ELSE <<>>)
      \o (IF filters.to_date # 0
            THEN <<Atom("last_sync_updated", "$lte", <<filters.to_date>>)>> ELSE <<>>),
   or |-> access_filter.or,
   and |-> access_filter.and
      \o (IF filters.author # <<>>
            THEN << << << Atom("metadata.author", "$eq", <<filters.author>>) >>,
                       << Atom("author_email", "$eq", <<filters.author>>) >> >> >>
            ELSE <<>>)]

BuildAccessFilter(user_email_normalized, filters) ==
  AdditionalFilters(AccessPart(user_email_normalized, filters), filters)

\* variant: the fallback filter also loses its $or
FallbackFilter_DropsOr(access_filter) ==
  [access_filter EXCEPT !.sync_status = FALSE, !.or = << <<>> >>]

\* variant: the fallback filter keeps the sync_status requirement
FallbackFilter_KeepsSync(access_filter) == access_filter

\* fallback_filter = access_filter.copy(); fallback_filter.pop("sync_status")
FallbackFilter(access_filter) == [access_filter EXCEPT !.sync_status = FALSE]

\* variant: one-character words are kept as tokens
RECURSIVE KeepWords_KeepsShort(_)
KeepWords_KeepsShort(pieces) ==
  IF pieces = <<>> THEN <<>>
  ELSE (IF Len(Strip(Head(pieces))) > 0
          THEN <<Strip(Lower(Head(pieces)))>> ELSE <<>>)
         \o KeepWords_KeepsShort(Tail(pieces))

\* ------------------------------------------------------------------------
\* search_documents: tokenizer and scorer
\* ------------------------------------------------------------------------
RECURSIVE KeepWords(_)
KeepWords(pieces) ==
  IF pieces = <<>> THEN <<>>
  ELSE (IF Len(Strip(Head(pieces))) > 1
          THEN <<Strip(Lower(Head(pieces)))>> ELSE <<>>)
         \o KeepWords(Tail(pieces))

\* query_words
QueryWords(query) ==
  IF Strip(query) # <<>> THEN KeepWords(ReSplit(query)) ELSE <<>>

\* the concatenation of all searchable fields of a candidate
AllText(doc) ==
  Join(<< Lower(Get(doc, "title", <<>>)),
          Lower(Get(doc, "content", <<>>)),
          Lower(Get(doc, "searchable_text", <<>>)),
          Lower(Get(doc, "author_email", <<>>)),
          Lower(Join(Get(doc, "user_emails_with_access", <<>>), SP)),
          Lower(Get(doc, "integration_type", <<>>)),
          Lower(Get(doc, "tool", <<>>)),
          Lower(doc.metadata.author),
          Lower(doc.metadata.type),
          Lower(doc.metadata.path),
          Lower(Get(doc, "file_url", <<>>)) >>, SP)

\* variant: no credit for the exact phrase
PhraseCredit_None(query, all_text) == 0

\* STRATEGY 1: exact phrase
PhraseCredit(query, all_text) ==
  IF Contains(Lower(query), all_text) THEN 5 ELSE 0

\* STRATEGY 2: the credit of one query word
WordCredit(word, doc, all_text) ==
  IF Contains(word, all_text)
    THEN IF Contains(word, Lower(Get(doc, "title", <<>>))) THEN 3
         ELSE IF \/ Contains(word, Lower(Get(doc, "author_email", <<>>)))
                 \/ Contains(word, Lower(Join(Get(doc, "user_emails_with_access", <<>>), SP)))
                THEN 2
                ELSE 1
    ELSE 0

RECURSIVE WordCredits(_, _, _)
WordCredits(words, doc, all_text) ==
  IF words = <<>> THEN 0
  ELSE WordCredit(Head(words), doc, all_text) + WordCredits(Tail(words), doc, all_text)

\* STRATEGY 3: partial matches of one query word in the words of the text
RECURSIVE PartialOfWord(_, _)
PartialOfWord(word, text_words) ==
  IF text_words = <<>> THEN 0
  ELSE (IF Contains(word, Head(text_words)) /\ Len(Head(text_words)) >= 4 THEN 1 ELSE 0)
         + PartialOfWord(word, Tail(text_words))

RECURSIVE PartialCredits(_, _)
PartialCredits(words, text_words) ==
  IF words = <<>> THEN 0
  ELSE (IF Len(Head(words)) >= 4 THEN PartialOfWord(Head(words), text_words) ELSE 0)
         + PartialCredits(Tail(words), text_words)

\* variant: the doubling is applied to the whole sum
Relevance_DoublesAll(exact_matches, partial_matches) ==
  (exact_matches + partial_matches) * 2

\* relevance_score = exact_matches * 2 + partial_matches
Relevance(exact_matches, partial_matches) == exact_matches * 2 + partial_matches

\* the scoring of one candidate against a query with words
ScoreDoc(doc, query, query_words) ==
  LET all_text == AllText(doc)
      phrase == PhraseCredit(query, all_text)
      exact_matches == phrase + WordCredits(query_words, doc, all_text)
      partial_matches == PartialCredits(query_words, Split(all_text))
  IN  [match_found |-> exact_matches > 0 \/ partial_matches > 0,
       exact_matches |-> exact_matches,
       partial_matches |-> partial_matches,
       relevance_score |-> Relevance(exact_matches, partial_matches)]

\* the text filtering loop over the candidates
RECURSIVE TextFilter(_, _, _)
TextFilter(all_results, query, query_words) ==
  IF all_results = <<>> THEN <<>>
  ELSE LET doc == Head(all_results)
           rest == TextFilter(Tail(all_results), query, query_words)
       IN  IF query_words = <<>> THEN <<doc>> \o rest
           ELSE LET sc == ScoreDoc(doc, query, query_words)
                IN  IF sc.match_found
                      THEN << ("relevance_score" :> sc.relevance_score)
                              @@ ("exact_matches" :> sc.exact_matches)
                              @@ ("partial_matches" :> sc.partial_matches)
                              @@ doc >> \o rest
                      ELSE rest

\* the reduced text of the fallback pass
FallbackText(doc) ==
  Join(<< Lower(Get(doc, "title", <<>>)),
          Lower(Get(doc, "content", <<>>)),
          Lower(Get(doc, "author_email", <<>>)),
          Lower(Join(Get(doc, "user_emails_with_access", <<>>), SP)) >>, SP)

FallbackMatch(doc, query_words) ==
  \E i \in DOMAIN query_words : Contains(query_words[i], FallbackText(doc))

\* the fallback filtering loop: fixed score 1, tagged as fallback
RECURSIVE FallbackTextFilter(_, _)
FallbackTextFilter(fallback_results, query_words) ==
  IF fallback_results = <<>> THEN <<>>
  ELSE LET doc == Head(fallback_results)
           rest == FallbackTextFilter(Tail(fallback_results), query_words)
       IN  IF FallbackMatch(doc, query_words)
             THEN << ("relevance_score" :> 1) @@ ("is_fallback_result" :> TRUE) @@ doc >>
                    \o rest
             ELSE rest

\* the final sort
SortResults(filtered_results, query_words, sort_by) ==
  IF query_words # <<>> /\ sort_by = "relevance" THEN SortByScoreDesc(filtered_results)
  ELSE IF sort_by = "date" THEN SortByDateDesc(filtered_results)
  ELSE filtered_results

\* result_data of one document
ResultData(doc) ==
  [_id |-> doc._id,
   title |-> Get(doc, "title", <<>>),
   author |-> Get(doc, "author_email", doc.metadata.author),
   source |-> Get(doc, "tool", <<>>),
   integration_type |-> Get(doc, "integration_type", Get(doc, "tool", <<>>)),
   last_updated |-> doc.last_sync_updated,
   type |-> doc.metadata.type,
   sync_status |-> Get(doc, "sync_status", FALSE),
   account_id |-> Get(doc, "account_id", "unknown"),
   relevance_score |-> Get(doc, "relevance_score", 0),
   is_fallback_result |-> Get(doc, "is_fallback_result", FALSE),
   author_email |-> Get(doc, "author_email", <<>>),
   users_with_access |-> Get(doc, "user_emails_with_access", <<>>),
   access_count |-> Len(Get(doc, "user_emails_with_access", <<>>)),
   is_chunked |-> Get(doc, "is_chunked", FALSE)]

\* variant: every result is counted under every value
CountBy_All(final_results, field, value) == Len(final_results)

\* number of results with a given value of a field
CountBy(final_results, field, value) ==
  Cardinality({i \in DOMAIN final_results : final_results[i][field] = value})

\* the distribution dicts of the summary
Distribution(final_results, field) ==
  [v \in {final_results[i][field] : i \in DOMAIN final_results} |->
     CountBy(final_results, field, v)]

\* the envelope of a rejected or failed request
ErrorEnvelope(error_msg) ==
  [results |-> <<>>,
   summary |-> [total |-> 0, by_source |-> <<>>, error |-> error_msg]]

\* variant: an empty result list is answered with the short summary
SuccessEnvelope_Short(query, user_email, query_words, all_results, filtered_results, final_results, suggestions) ==
  [results |-> final_results,
   summary |->
     IF final_results = <<>>
       THEN [total |-> 0, by_source |-> <<>>, error |-> "no results"]
       ELSE [total |-> Len(filtered_results),
             returned |-> Len(final_results),
             by_source |-> Distribution(final_results, "source"),
             by_integration |-> Distribution(final_results, "integration_type"),
             by_sync_status |-> [synced |-> CountBy(final_results, "sync_status", TRUE),
                                 failed |-> CountBy(final_results, "sync_status", FALSE)],
             search_time_ms |-> 0,
             user |-> user_email,
             query |-> query,
             query_words |-> query_words,
             search_method |-> "enhanced_aggressive_search",
             db_results |-> Len(all_results),
             filtered_results |-> Len(filtered_results),
             suggestions |-> suggestions,
             status |-> "results_found"]]

\* the envelope of a completed request
SuccessEnvelope(query, user_email, query_words, all_results, filtered_results, final_results, suggestions) ==
  [results |-> final_results,
   summary |->
     [total |-> Len(filtered_results),
      returned |-> Len(final_results),
      by_source |-> Distribution(final_results, "source"),
      by_integration |-> Distribution(final_results, "integration_type"),
      by_sync_status |-> [synced |-> CountBy(final_results, "sync_status", TRUE),
                          failed |-> CountBy(final_results, "sync_status", FALSE)],
      search_time_ms |-> 0,
      user |-> user_email,
      query |-> query,
      query_words |-> query_words,
      search_method |-> "enhanced_aggressive_search",
      db_results |-> Len(all_results),
      filtered_results |-> Len(filtered_results),
      suggestions |-> suggestions,
      status |-> IF final_results # <<>> THEN "results_found" ELSE "no_results_found"]]

\* ------------------------------------------------------------------------
\* SpellCorrector (analytics/spellcorrector.py)
\* ------------------------------------------------------------------------
common_words ==
  <<
    <<"p","r","o","j","e","c","t">>, <<"d","o","c","u","m","e","n","t">>,
    <<"m","e","e","t","i","n","g">>, <<"p","r","e","s","e","n","t","a","t","i","o","n">>,
    <<"r","e","p","o","r","t">>, <<"a","n","a","l","y","s","i","s">>,
    <<"d","a","s","h","b","o","a","r","d">>, <<"m","e","t","r","i","c","s">>, <<"d","a","t","a">>,
    <<"a","p","i">>, <<"d","o","c","u","m","e","n","t","a","t","i","o","n">>,
    <<"s","p","e","c","i","f","i","c","a","t","i","o","n">>,
    <<"r","e","q","u","i","r","e","m","e","n","t","s">>, <<"d","e","s","i","g","n">>,
    <<"a","r","c","h","i","t","e","c","t","u","r","e">>,
    <<"d","e","v","e","l","o","p","m","e","n","t">>, <<"t","e","s","t","i","n","g">>,
    <<"d","e","p","l","o","y","m","e","n","t">>,
    <<"i","n","f","r","a","s","t","r","u","c","t","u","r","e">>,
    <<"s","e","c","u","r","i","t","y">>, <<"c","o","m","p","l","i","a","n","c","e">>,
    <<"a","u","d","i","t">>, <<"b","u","d","g","e","t">>, <<"t","i","m","e","l","i","n","e">>,
    <<"m","i","l","e","s","t","o","n","e">>, <<"d","e","l","i","v","e","r","a","b","l","e">>,
    <<"s","t","a","k","e","h","o","l","d","e","r">>, <<"c","l","i","e","n","t">>,
    <<"c","u","s","t","o","m","e","r">>, <<"v","e","n","d","o","r">>,
    <<"p","a","r","t","n","e","r">>, <<"t","e","a","m">>, <<"r","e","s","o","u","r","c","e">>,
    <<"s","t","r","a","t","e","g","y">>, <<"p","l","a","n","n","i","n","g">>,
    <<"r","o","a","d","m","a","p">>, <<"v","i","s","i","o","n">>, <<"m","i","s","s","i","o","n">>,
    <<"g","o","a","l","s">>, <<"o","b","j","e","c","t","i","v","e","s">>, <<"k","p","i">>,
    <<"r","o","i">>, <<"r","e","v","e","n","u","e">>, <<"c","o","s","t">>,
    <<"p","r","o","f","i","t">>, <<"g","r","o","w","t","h">>, <<"m","a","r","k","e","t">>,
    <<"c","o","m","p","e","t","i","t","i","o","n">>,
    <<"o","p","p","o","r","t","u","n","i","t","y">>, <<"r","i","s","k">>,
    <<"c","h","a","l","l","e","n","g","e">>, <<"s","o","l","u","t","i","o","n">>,
    <<"i","m","p","l","e","m","e","n","t","a","t","i","o","n">>,
    <<"o","p","t","i","m","i","z","a","t","i","o","n">>,
    <<"p","e","r","f","o","r","m","a","n","c","e">>, <<"q","u","a","l","i","t","y">>,
    <<"e","f","f","i","c","i","e","n","c","y">>,
    <<"p","r","o","d","u","c","t","i","v","i","t","y">>,
    <<"i","n","n","o","v","a","t","i","o","n">>, <<"r","e","s","e","a","r","c","h">>,
    <<"p","r","o","p","o","s","a","l">>, <<"c","o","n","t","r","a","c","t">>,
    <<"a","g","r","e","e","m","e","n","t">>, <<"p","o","l","i","c","y">>,
    <<"p","r","o","c","e","d","u","r","e">>, <<"w","o","r","k","f","l","o","w">>,
    <<"p","r","o","c","e","s","s">>, <<"a","u","t","o","m","a","t","i","o","n">>,
    <<"i","n","t","e","g","r","a","t","i","o","n">>, <<"m","i","g","r","a","t","i","o","n">>,
    <<"b","a","c","k","u","p">>, <<"r","e","c","o","v","e","r","y">>,
    <<"m","o","n","i","t","o","r","i","n","g">>, <<"l","o","g","g","i","n","g">>,
    <<"d","e","b","u","g","g","i","n","g">>,
    <<"c","o","n","f","i","g","u","r","a","t","i","o","n">>,
    <<"d","e","p","l","o","y","m","e","n","t">>, <<"e","n","v","i","r","o","n","m","e","n","t">>,
    <<"p","r","o","d","u","c","t","i","o","n">>, <<"s","t","a","g","i","n","g">>,
    <<"t","e","s","t","i","n","g">>, <<"d","e","v","e","l","o","p","m","e","n","t">>,
    <<"f","r","a","m","e","w","o","r","k">>, <<"l","i","b","r","a","r","y">>,
    <<"d","a","t","a","b","a","s","e">>, <<"s","e","r","v","e","r">>, <<"c","l","o","u","d">>,
    <<"a","w","s">>, <<"a","z","u","r","e">>, <<"g","o","o","g","l","e">>,
    <<"k","u","b","e","r","n","e","t","e","s">>, <<"d","o","c","k","e","r">>,
    <<"j","e","n","k","i","n","s">>, <<"g","i","t">>, <<"g","i","t","h","u","b">>,
    <<"g","i","t","l","a","b">>, <<"s","l","a","c","k">>, <<"j","i","r","a">>,
    <<"c","o","n","f","l","u","e","n","c","e">>, <<"n","o","t","i","o","n">>,
    <<"e","x","c","e","l">>, <<"p","o","w","e","r","p","o","i","n","t">>, <<"w","o","r","d">>,
    <<"p","d","f">>, <<"c","s","v">>, <<"j","s","o","n">>, <<"x","m","l">>, <<"h","t","m","l">>,
    <<"c","s","s">>, <<"j","a","v","a","s","c","r","i","p","t">>, <<"p","y","t","h","o","n">>,
    <<"j","a","v","a">>, <<"r","e","a","c","t">>, <<"a","n","g","u","l","a","r">>, <<"v","u","e">>,
    <<"n","o","d","e">>, <<"e","x","p","r","e","s","s">>, <<"d","j","a","n","g","o">>,
    <<"f","l","a","s","k">>, <<"s","p","r","i","n","g">>, <<"h","i","b","e","r","n","a","t","e">>,
    <<"m","y","s","q","l">>, <<"p","o","s","t","g","r","e","s","q","l">>,
    <<"m","o","n","g","o","d","b">>, <<"r","e","d","i","s">>,
    <<"e","l","a","s","t","i","c","s","e","a","r","c","h">>, <<"k","a","f","k","a">>,
    <<"r","a","b","b","i","t","m","q">>
  >>

\* word_variations as a list of <<key, values>> in the dict's order
word_variations ==
  <<
    <<<<"p","r","o","j">>, <<<<"p","r","o","j","e","c","t">>, <<"p","r","o","j","e","c","t","s">>>>>>,
    <<<<"d","o","c">>, <<<<"d","o","c","u","m","e","n","t">>, <<"d","o","c","u","m","e","n","t","s">>, <<"d","o","c","u","m","e","n","t","a","t","i","o","n">>>>>>,
    <<<<"m","e","e","t">>, <<<<"m","e","e","t","i","n","g">>, <<"m","e","e","t","i","n","g","s">>>>>>,
    <<<<"p","r","e","s">>, <<<<"p","r","e","s","e","n","t","a","t","i","o","n">>, <<"p","r","e","s","e","n","t","a","t","i","o","n","s">>>>>>,
    <<<<"r","e","p","o">>, <<<<"r","e","p","o","r","t">>, <<"r","e","p","o","r","t","s">>, <<"r","e","p","o","s","i","t","o","r","y">>>>>>,
    <<<<"s","p","e","c">>, <<<<"s","p","e","c","i","f","i","c","a","t","i","o","n">>, <<"s","p","e","c","i","f","i","c","a","t","i","o","n","s">>>>>>,
    <<<<"r","e","q">>, <<<<"r","e","q","u","i","r","e","m","e","n","t","s">>, <<"r","e","q","u","e","s","t">>>>>>,
    <<<<"d","e","v">>, <<<<"d","e","v","e","l","o","p","m","e","n","t">>, <<"d","e","v","e","l","o","p","e","r">>>>>>,
    <<<<"p","r","o","d">>, <<<<"p","r","o","d","u","c","t","i","o","n">>, <<"p","r","o","d","u","c","t">>>>>>,
    <<<<"e","n","v">>, <<<<"e","n","v","i","r","o","n","m","e","n","t">>, <<"e","n","v","i","r","o","n","m","e","n","t","s">>>>>>,
    <<<<"c","o","n","f","i","g">>, <<<<"c","o","n","f","i","g","u","r","a","t","i","o","n">>, <<"c","o","n","f","i","g","u","r","a","t","i","o","n","s">>>>>>,
    <<<<"a","u","t","h">>, <<<<"a","u","t","h","e","n","t","i","c","a","t","i","o","n">>, <<"a","u","t","h","o","r","i","z","a","t","i","o","n">>>>>>,
    <<<<"a","p","i">>, <<<<"a","p","i","s">>, <<"e","n","d","p","o","i","n","t">>, <<"e","n","d","p","o","i","n","t","s">>>>>>,
    <<<<"d","b">>, <<<<"d","a","t","a","b","a","s","e">>, <<"d","a","t","a","b","a","s","e","s">>>>>>,
    <<<<"u","i">>, <<<<"i","n","t","e","r","f","a","c","e">>, <<"u","s","e","r"," ","i","n","t","e","r","f","a","c","e">>>>>>,
    <<<<"u","x">>, <<<<"u","s","e","r"," ","e","x","p","e","r","i","e","n","c","e">>, <<"e","x","p","e","r","i","e","n","c","e">>>>>>
  >>

\* difflib.SequenceMatcher.find_longest_match(alo, ahi, blo, bhi) without
\* junk: the longest block a[i:i+k] = b[j:j+k], the earliest in a, then the
\* earliest in b (0-based, half-open bounds as in Python)
\* length of the match starting at a[i], b[j] inside the bounds
RECURSIVE RunLength(_, _, _, _, _, _)
RunLength(a, b, i, j, ahi, bhi) ==
  IF i < ahi /\ j < bhi /\ a[i + 1] = b[j + 1]
    THEN 1 + RunLength(a, b, i + 1, j + 1, ahi, bhi)
    ELSE 0

FindLongestMatch(a, b, alo, ahi, blo, bhi) ==
  LET starts == {<<i, j>> \in (alo..(ahi - 1)) \X (blo..(bhi - 1)) : a[i + 1] = b[j + 1]}
  IN  IF starts = {} THEN <<alo, blo, 0>>
      ELSE LET len(p) == RunLength(a, b, p[1], p[2], ahi, bhi)
               best == CHOOSE p \in starts :
                         \A q \in starts :
                            \/ len(p) > len(q)
                            \/ /\ len(p) = len(q)
                               /\ \/ p[1] < q[1]
                                  \/ p[1] = q[1] /\ p[2] <= q[2]
           IN  <<best[1], best[2], len(best)>>

\* total size of the matching blocks (get_matching_blocks)
RECURSIVE MatchingSize(_, _, _, _, _, _)
MatchingSize(a, b, alo, ahi, blo, bhi) ==
  LET m == FindLongestMatch(a, b, alo, ahi, blo, bhi)
      i == m[1]
      j == m[2]
      k == m[3]
  IN  IF k = 0 THEN 0
      ELSE k + (IF alo < i /\ blo < j THEN MatchingSize(a, b, alo, i, blo, j) ELSE 0)
             + (IF i + k < ahi /\ j + k < bhi
                  THEN MatchingSize(a, b, i + k, ahi, j + k, bhi) ELSE 0)

\* ratio() = 2.0 * matches / (len(a) + len(b)), kept as the fraction
\* <<numerator, denominator>>
Ratio(a, b) ==
  IF Len(a) + Len(b) = 0 THEN <<1, 1>>
  ELSE <<2 * MatchingSize(a, b, 0, Len(a), 0, Len(b)), Len(a) + Len(b)>>

\* code point order of two characters of the vocabulary's alphabet
CharIndex(c) ==
  IF c \in Range(LowerAlpha) THEN CHOOSE i \in 1..26 : LowerAlpha[i] = c ELSE 0

\* s < t for strings
RECURSIVE StrLess(_, _)
StrLess(s, t) ==
  IF t = <<>> THEN FALSE
  ELSE IF s = <<>> THEN TRUE
  ELSE IF Head(s) = Head(t) THEN StrLess(Tail(s), Tail(t))
  ELSE CharIndex(Head(s)) < CharIndex(Head(t))

\* (score1, x1) >= (score2, x2) for the <<ratio, word>> pairs of
\* get_close_matches
PairGeq(p, q) ==
  LET l == p[1][1] * q[1][2]
      r == q[1][1] * p[1][2]
  IN  l > r \/ (l = r /\ ~StrLess(p[2], q[2]))

\* heapq.nlargest(n, result): repeatedly take the greatest remaining pair;
\* result[i] = <<ratio, word>>, candidates is the set of remaining indexes
RECURSIVE NLargest(_, _, _)
NLargest(n, result, candidates) ==
  IF n = 0 \/ candidates = {} THEN <<>>
  ELSE LET top == CHOOSE i \in candidates :
                     \A j \in candidates :
                        /\ PairGeq(result[i], result[j])
                        /\ (PairGeq(result[j], result[i]) => i <= j)
       IN  <<result[top]>> \o NLargest(n - 1, result, candidates \ {top})

\* difflib.get_close_matches(word, possibilities, n, cutoff): the n best
\* possibilities with ratio >= cutoff, best first; cutoff = cutoffNum/cutoffDen
get_close_matches(word, possibilities, n, cutoffNum, cutoffDen) ==
  LET result == [i \in DOMAIN possibilities |->
                   <<Ratio(possibilities[i], word), possibilities[i]>>]
      close == {i \in DOMAIN possibilities :
                  result[i][1][1] * cutoffDen >= cutoffNum * result[i][1][2]}
      best == NLargest(n, result, close)
  IN  [i \in DOMAIN best |-> best[i][2]]

VariationIndex(word_lower) ==
  {i \in DOMAIN word_variations : word_variations[i][1] = word_lower}

Variations(key) == word_variations[CHOOSE i \in VariationIndex(key) : TRUE][2]

variation_keys == [i \in DOMAIN word_variations |-> word_variations[i][1]]

RECURSIVE ExtendVariations(_)
ExtendVariations(variation_matches) ==
  IF variation_matches = <<>> THEN <<>>
  ELSE Take(Variations(Head(variation_matches)), 2) \o ExtendVariations(Tail(variation_matches))

\* variant: the word itself is kept among its suggestions
RECURSIVE UniqueSuggestions_KeepsWord(_, _, _)
UniqueSuggestions_KeepsWord(suggestions, word_lower, unique_suggestions) ==
  IF suggestions = <<>> THEN unique_suggestions
  ELSE UniqueSuggestions_KeepsWord(Tail(suggestions), word_lower,
         IF ~InList(Head(suggestions), unique_suggestions)
           THEN Append(unique_suggestions, Head(suggestions))
           ELSE unique_suggestions)

\* remove duplicates and the word itself, preserving order
RECURSIVE UniqueSuggestions(_, _, _)
UniqueSuggestions(suggestions, word_lower, unique_suggestions) ==
  IF suggestions = <<>> THEN unique_suggestions
  ELSE UniqueSuggestions(Tail(suggestions), word_lower,
         IF ~InList(Head(suggestions), unique_suggestions) /\ Head(suggestions) # word_lower
           THEN Append(unique_suggestions, Head(suggestions))
           ELSE unique_suggestions)

get_suggestions(word, n) ==
  IF word = <<>> \/ Len(word) < 2 THEN <<>>
  ELSE LET word_lower == Lower(word)
       IN  IF VariationIndex(word_lower) # {} THEN Take(Variations(word_lower), n)
           ELSE LET close_matches == get_close_matches(word_lower, common_words, n, 6, 10)
                    variation_matches == get_close_matches(word_lower, variation_keys, 2, 7, 10)
                    suggestions == close_matches \o ExtendVariations(variation_matches)
                IN  Take(UniqueSuggestions(suggestions, word_lower, <<>>), n)

\* new_words[i] = suggestion; ' '.join(new_words), for every suggestion of
\* word i, appended when not yet present
RECURSIVE SubstituteWord(_, _, _, _)
SubstituteWord(words, i, word_suggestions, suggestions) ==
  IF word_suggestions = <<>> THEN suggestions
  ELSE LET new_query == Join([words EXCEPT ![i] = Head(word_suggestions)], SP)
       IN  SubstituteWord(words, i, Tail(word_suggestions),
             IF ~InList(new_query, suggestions) THEN Append(suggestions, new_query)
             ELSE suggestions)

RECURSIVE MultiWordSuggestions(_, _, _)
MultiWordSuggestions(words, i, suggestions) ==
  IF i > Len(words) THEN suggestions
  ELSE MultiWordSuggestions(words, i + 1,
         SubstituteWord(words, i, get_suggestions(words[i], 2), suggestions))

get_query_suggestions(query) ==
  IF query = <<>> \/ Len(Strip(query)) < 2 THEN <<>>
  ELSE LET words == Split(Lower(query))
       IN  Take(IF Len(words) = 1 THEN get_suggestions(words[1], 5)
                ELSE MultiWordSuggestions(words, 1, <<>>), 5)

Queries == {Text.q_empty, Text.q_phrase, Text.q_Plan, Text.q_q3}

BrowseQueries == {Text.q_empty, Text.q_short}

\* <<>> stands for a missing actor (None or "")
Actors == {<<>>, Text.e_bob, Text.e_A, Text.e_b}

F_failed == [NoFilters EXCEPT !.include_failed_sync = TRUE]

F_scoped == [NoFilters EXCEPT !.external_user_id = "ext1", !.account_id = "acc1"]

F_opts ==
  [NoFilters EXCEPT !.apps = <<Text.t_drive>>, !.author = Text.e_b, !.file_types = <<Text.t_file>>,
                    !.from_date = 1, !.to_date = 2]

\* filter sets that leave the candidate set as the access predicate gives it
PlainFilters == {NoFilters, F_failed}

\* filter sets that narrow it
NarrowFilters == {F_scoped, F_opts}

SortModes == {"relevance", "date"}

Limits == 1..MaxLimit

Request(query, user_email, filters, sort_by, limit, offset) ==
  [query |-> query, user_email |-> user_email, filters |-> filters,
   sort_by |-> sort_by, limit |-> limit, offset |-> offset]

\* every query for the second actor and every actor for one query, with
\* default options; every query under each filter set for one actor, in both
\* sort modes where the candidate set is not narrowed; every limit and offset
\* for the query with several matches; every limit for the query without a
\* word of two characters
Requests ==
  {Request(q, Text.e_b, NoFilters, "relevance", MaxLimit, 0) : q \in Queries}
  \cup {Request(Text.q_Plan, u, NoFilters, "relevance", MaxLimit, 0) : u \in Actors}
  \cup {Request(q, Text.e_A, f, sm, MaxLimit, 0) :
          q \in Queries, f \in PlainFilters, sm \in SortModes}
  \cup {Request(q, Text.e_A, f, "relevance", MaxLimit, 0) : q \in Queries, f \in NarrowFilters}
  \cup {Request(Text.q_Plan, Text.e_A, f, "relevance", l, o) :
          f \in PlainFilters, l \in Limits, o \in {0, 1}}
  \cup {Request(Text.q_short, Text.e_A, NoFilters, "relevance", l, 0) : l \in Limits}
  \cup {Request(Text.q_api, Text.e_A, NoFilters, "relevance", MaxLimit, 0)}

\* ------------------------------------------------------------------------
\* State
\* ------------------------------------------------------------------------
VARIABLES
  docs,             \* enterprise_documents collection, in insertion order
  search_log,       \* search_analytics collection
  clock,            \* source of last_sync_updated (time is observed only
                    \* through the timestamps of stored documents)
  spell_corrector,  \* the SpellCorrector built by __init__, as the answers of
                    \* its get_query_suggestions to the queries of the model
  pc,               \* position of the search request in search_documents
  req,              \* arguments of the request
  access_filter,    \* local access_filter
  all_results,      \* local all_results (candidates of the primary fetch)
  fallback_results, \* local fallback_results (candidates of the fallback fetch)
  query_words,      \* local query_words
  filtered_results, \* local filtered_results
  final_results,    \* local final_results
  suggestions,      \* local suggestions
  envelope,         \* the dict returned to the caller
  raised,           \* an exception left search_documents
  outcome,          \* how the request ended
  stages,           \* the steps the request has gone through
  find_calls,       \* number of docs_collection.find calls of the request
  suggest_calls,    \* number of get_query_suggestions calls of the request
  log_calls,        \* number of _log_search calls of the request
  log_failed,       \* whether the store refused the record of such a call
  newest,           \* the newest stored document when the request fetched
  suggest_call,     \* a call of SpellCorrector.get_query_suggestions
  autocomplete,     \* a call of get_dynamic_suggestions
  store_call,       \* the last call of store_document and what it returned
  snippet_call,     \* a call of _generate_enhanced_snippet
  tracker           \* the search and document histories of the AnalyticsTracker

storeVars == <<docs, clock, spell_corrector>>

localVars == <<access_filter, all_results, fallback_results, query_words,
               filtered_results, final_results, suggestions>>

ghostVars == <<stages, find_calls, suggest_calls, log_calls, log_failed, newest>>

callVars == <<suggest_call, autocomplete, store_call, snippet_call, tracker>>

vars == <<docs, search_log, clock, spell_corrector, pc, req, access_filter, all_results,
          fallback_results, query_words, filtered_results, final_results, suggestions, envelope,
          raised, outcome, stages, find_calls, suggest_calls, log_calls, log_failed, newest,
          suggest_call, autocomplete, store_call, snippet_call, tracker>>

NoRequest == Request(<<>>, <<>>, NoFilters, "relevance", 0, 0)

NoEnvelope == [results |-> <<>>, summary |-> [pending |-> TRUE]]

NoDocument == [_id |-> 0]

NoCall == [pc |-> "idle"]

\* the histories of a newly constructed AnalyticsTracker
NoHistory ==
  [total_searches |-> 0, search_queries |-> <<>>,
   total_document_accesses |-> 0, recent_document_views |-> <<>>]

\* the state of a newly constructed manager, but for the documents the
\* collection holds; queries are the queries the corrector will be asked,
\* chunk_all is the chunk_all argument of the constructor
Fresh(queries, chunk_all) ==
  /\ search_log = <<>>
  /\ spell_corrector = [q \in queries |-> get_query_suggestions(q)]
  /\ pc = "idle"
  /\ req = NoRequest
  /\ access_filter = AccessPart(<<>>, NoFilters)
  /\ all_results = <<>>
  /\ fallback_results = <<>>
  /\ query_words = <<>>
  /\ filtered_results = <<>>
  /\ final_results = <<>>
  /\ suggestions = <<>>
  /\ envelope = NoEnvelope
  /\ raised = FALSE
  /\ outcome = "none"
  /\ stages = <<>>
  /\ find_calls = 0
  /\ suggest_calls = 0
  /\ log_calls = 0
  /\ log_failed = FALSE
  /\ newest = NoDocument
  /\ suggest_call = NoCall
  /\ autocomplete = NoCall
  /\ store_call = [pc |-> "idle", chunk_all |-> chunk_all]
  /\ snippet_call = NoCall
  /\ tracker = NoHistory

\* the manager is constructed over an empty collection
Init ==
  /\ docs = <<>>
  /\ clock = 1
  /\ Fresh(Queries \cup BrowseQueries \cup {Text.q_api}, FALSE)

\* insert_one: the store assigns the _id
InsertOne(collection, document, oid) == Append(collection, ("_id" :> oid) @@ document)

\* a document stored by an earlier run of the ingestion path
Seed ==
  InsertOne(<<>>, _store_single_document(DocData2, DocData2.title, DocData2.content,
                                         ExtractAuthorEmail(DocData2),
                                         SyncStatus(DocData2), 0), 0)

\* the manager is constructed over a collection that already holds a document
InitSeeded ==
  /\ docs = Seed
  /\ clock = 1
  /\ Fresh(Queries \cup BrowseQueries \cup {Text.q_api}, FALSE)

\* store_document(doc_data); insert_ok is whether the store accepts the
\* insert: when it does not, the exception is caught, (False, error) is
\* returned and the collection is as before.  Documents above
\* MAX_CONTENT_SIZE take the chunking path, which the inputs of the model do
\* not reach.  The entry points of the API layer are coroutines that call
\* the synchronous pipeline without awaiting, so a call of store_document and
\* a search request run one after the other and are not interleaved.
\* MaxDocs bounds the documents stored in a run (clock counts them).
StoreDocument(doc_data, insert_ok) ==
  /\ clock <= MaxDocs
  /\ pc = "idle"
  /\ Len(doc_data.content) <= MAX_CONTENT_SIZE
  /\ LET author_email == ExtractAuthorEmail(doc_data)
         sync_status == SyncStatus(doc_data)
         document == _store_single_document(doc_data, doc_data.title, doc_data.content,
                                            author_email, sync_status, clock)
     IN  IF insert_ok
           THEN /\ docs' = InsertOne(docs, document, clock)
                /\ clock' = clock + 1
           ELSE /\ docs' = docs
                /\ clock' = clock
  /\ UNCHANGED <<search_log, spell_corrector, pc, req, envelope, raised, outcome>>
  /\ UNCHANGED localVars
  /\ UNCHANGED ghostVars
  /\ UNCHANGED callVars

\* variant: an empty actor is let through
ActorRejected_Never(user_email) == FALSE

\* variant: the except clause raises again
Except_Reraise(error_msg) == [raised |-> TRUE, envelope |-> NoEnvelope]

\* the except clause of search_documents: the exception becomes an envelope
Except(error_msg) == [raised |-> FALSE, envelope |-> ErrorEnvelope(error_msg)]

\* the exception of a failed store call ends the request in the except clause
StoreFailure ==
  LET handled == Except("store unavailable")
  IN  /\ raised' = handled.raised
      /\ envelope' = handled.envelope
      /\ outcome' = "error"
      /\ pc' = "done"

\* is the actor argument rejected before the try block?
ActorRejected(user_email) == user_email = <<>>

\* search_documents, up to the first store call: the actor check and the
\* construction of the access filter
SearchStart(r) ==
  /\ pc = "idle"
  /\ Len(search_log) < MaxLog
  /\ req' = r
  /\ IF ActorRejected(r.user_email)
       THEN /\ envelope' = ErrorEnvelope("User email required for access control")
            /\ outcome' = "rejected"
            /\ pc' = "done"
            /\ stages' = <<"VALIDATE_ACTOR">>
            /\ UNCHANGED access_filter
       ELSE /\ access_filter' = BuildAccessFilter(normalize_email(r.user_email), r.filters)
            /\ pc' = "FETCH_CANDIDATES"
            /\ stages' = <<"VALIDATE_ACTOR", "BUILD_FILTER">>
            /\ UNCHANGED <<envelope, outcome>>
  /\ UNCHANGED <<search_log, raised, all_results, fallback_results, query_words,
                 filtered_results, final_results, suggestions, find_calls, suggest_calls,
                 log_calls, log_failed, newest>>
  /\ UNCHANGED storeVars
  /\ UNCHANGED callVars

\* variant: did-you-mean suggestions for up to three results
Sparse_UpToThree(filtered, words) == Len(filtered) <= 3 /\ words # <<>>

\* are did-you-mean suggestions generated?
Sparse(filtered, words) == Len(filtered) < 3 /\ words # <<>>

\* did-you-mean suggestions, the final sort, the limit and the projection of
\* the results
Complete(filtered, words, passed) ==
  \E sparse \in {Sparse(filtered, words)} :
  \E suggestion_queries \in {IF sparse THEN spell_corrector[req.query] ELSE <<>>} :
  \E sorted \in {SortResults(filtered, words, req.sort_by)} :
  \E processed_results \in {Take(sorted, req.limit)} :
      /\ suggestions' = [i \in DOMAIN Take(suggestion_queries, 2) |->
                           [query |-> suggestion_queries[i]]]
      /\ suggest_calls' = suggest_calls + (IF sparse THEN 1 ELSE 0)
      /\ filtered_results' = sorted
      /\ final_results' = [i \in DOMAIN processed_results |->
                             ResultData(processed_results[i])]
      /\ stages' = passed \o (IF sparse THEN <<"GENERATE_SUGGESTIONS">> ELSE <<>>)
      /\ pc' = "LOG_SEARCH"

\* variant: the fallback pass supplements a sparse primary result
Starved_Sparse(filtered, words) == Len(filtered) < 3 /\ words # <<>>

\* is the fallback pass taken?
Starved(filtered, words) == filtered = <<>> /\ words # <<>>

\* the find call and the projection of its result
Candidates(collection, filter, limit, skip) ==
  LET found == Find(collection, filter, limit, skip)
  IN  [i \in DOMAIN found |-> Project(found[i], PROJECTION)]

\* the primary fetch and the text filtering of its candidates
FetchCandidates(store_ok) ==
  /\ pc = "FETCH_CANDIDATES"
  /\ find_calls' = find_calls + 1
  /\ newest' = IF docs = <<>> THEN NoDocument ELSE docs[Len(docs)]
  /\ IF ~store_ok
       THEN /\ StoreFailure
            /\ stages' = Append(stages, "FETCH_CANDIDATES")
            /\ UNCHANGED <<all_results, query_words, filtered_results, final_results,
                           suggestions, suggest_calls>>
       ELSE \E projected \in {Candidates(docs, access_filter, req.limit * 10, req.offset)} :
            \E words \in {QueryWords(req.query)} :
            \E filtered \in {TextFilter(projected, req.query, words)} :
                /\ all_results' = projected
                /\ query_words' = words
                /\ IF Starved(filtered, words)
                     THEN /\ pc' = "FETCH_FALLBACK_CANDIDATES"
                          /\ stages' = stages \o <<"FETCH_CANDIDATES", "SCORE_AND_RANK">>
                          /\ filtered_results' = filtered
                          /\ UNCHANGED <<final_results, suggestions, suggest_calls>>
                     ELSE Complete(filtered, words,
                                   stages \o <<"FETCH_CANDIDATES", "SCORE_AND_RANK">>)
                /\ UNCHANGED <<envelope, raised, outcome>>
  /\ UNCHANGED <<search_log, req, access_filter, fallback_results, log_calls, log_failed>>
  /\ UNCHANGED storeVars
  /\ UNCHANGED callVars

\* the fallback fetch (sync_status requirement removed) and its text filtering
FetchFallback(store_ok) ==
  /\ pc = "FETCH_FALLBACK_CANDIDATES"
  /\ find_calls' = find_calls + 1
  /\ IF ~store_ok
       THEN /\ StoreFailure
            /\ stages' = Append(stages, "FETCH_FALLBACK_CANDIDATES")
            /\ UNCHANGED <<fallback_results, filtered_results, final_results, suggestions,
                           suggest_calls>>
       ELSE \E found \in {Find(docs, FallbackFilter(access_filter), (req.limit * 10) \div 2, 0)} :
            \E filtered \in {filtered_results \o FallbackTextFilter(found, query_words)} :
                /\ fallback_results' = found
                /\ Complete(filtered, query_words,
                            stages \o <<"FETCH_FALLBACK_CANDIDATES", "SCORE_FALLBACK">>)
                /\ UNCHANGED <<envelope, raised, outcome>>
  /\ UNCHANGED <<search_log, req, access_filter, all_results, query_words, log_calls, log_failed,
                 newest>>
  /\ UNCHANGED storeVars
  /\ UNCHANGED callVars

\* _log_search: the record is inserted unless the store rejects it; a failure
\* is caught inside _log_search
\* variant: nothing is written
_log_search_Never(query, user_email, results_count, log_ok) == search_log

\* variant: the record is written twice
_log_search_Twice(query, user_email, results_count, log_ok) ==
  IF log_ok
    THEN search_log \o << [query |-> query, user_email |-> user_email, results_count |-> results_count],
                          [query |-> query, user_email |-> user_email, results_count |-> results_count] >>
    ELSE search_log

_log_search(query, user_email, results_count, log_ok) ==
  IF log_ok
    THEN Append(search_log, [query |-> query, user_email |-> user_email,
                             results_count |-> results_count])
    ELSE search_log

\* the search log write, the summary and the return of the envelope
LogSearch(log_ok) ==
  /\ pc = "LOG_SEARCH"
  /\ log_calls' = log_calls + 1
  /\ log_failed' = ~log_ok
  /\ search_log' = _log_search(req.query, req.user_email, Len(final_results), log_ok)
  /\ envelope' = SuccessEnvelope(req.query, req.user_email, query_words,
                                 all_results, filtered_results, final_results, suggestions)
  /\ outcome' = "success"
  /\ stages' = Append(stages, "ASSEMBLE_ENVELOPE")
  /\ pc' = "done"
  /\ UNCHANGED <<req, raised, find_calls, suggest_calls, newest>>
  /\ UNCHANGED localVars
  /\ UNCHANGED storeVars
  /\ UNCHANGED callVars

\* the caller takes the envelope; the locals of the request are gone
Return ==
  /\ pc = "done"
  /\ pc' = "idle"
  /\ req' = NoRequest
  /\ access_filter' = AccessPart(<<>>, NoFilters)
  /\ all_results' = <<>>
  /\ fallback_results' = <<>>
  /\ query_words' = <<>>
  /\ filtered_results' = <<>>
  /\ final_results' = <<>>
  /\ suggestions' = <<>>
  /\ envelope' = NoEnvelope
  /\ raised' = FALSE
  /\ outcome' = "none"
  /\ stages' = <<>>
  /\ find_calls' = 0
  /\ suggest_calls' = 0
  /\ log_calls' = 0
  /\ log_failed' = FALSE
  /\ newest' = NoDocument
  /\ UNCHANGED search_log
  /\ UNCHANGED storeVars
  /\ UNCHANGED callVars

Next ==
  \/ \E doc_data \in DocInputs, insert_ok \in BOOLEAN : StoreDocument(doc_data, insert_ok)
  \/ \E r \in Requests : SearchStart(r)
  \/ \E store_ok \in BOOLEAN : FetchCandidates(store_ok)
  \/ \E store_ok \in BOOLEAN : FetchFallback(store_ok)
  \/ \E log_ok \in BOOLEAN : LogSearch(log_ok)
  \/ Return

Spec == Init /\ [][Next]_vars

\* the same program over a collection that is not empty at construction
SeededSpec == InitSeeded /\ [][Next]_vars

\* the manager is constructed over a collection that holds more readable
\* documents than half of the largest candidate pool; nothing is ingested
InitLarge ==
  /\ docs = [i \in 1..((MaxLimit * 10) \div 2 + 1) |->
               ("_id" :> i) @@ _store_single_document(DocData2, DocData2.title, DocData2.content,
                                                      ExtractAuthorEmail(DocData2),
                                                      SyncStatus(DocData2), i)]
  /\ clock = (MaxLimit * 10) \div 2 + 2
  /\ Fresh(Queries \cup BrowseQueries \cup {Text.q_api}, FALSE)

\* search requests over that collection
LargeNext ==
  \/ \E r \in Requests : SearchStart(r)
  \/ \E store_ok \in BOOLEAN : FetchCandidates(store_ok)
  \/ \E store_ok \in BOOLEAN : FetchFallback(store_ok)
  \/ \E log_ok \in BOOLEAN : LogSearch(log_ok)
  \/ Return

LargeSpec == InitLarge /\ [][LargeNext]_vars

\* a request in flight takes its next step: every step of a request in
\* flight is one of FetchCandidates, FetchFallback and LogSearch, one of them
\* is enabled at each position, and each of them moves pc on
Advance ==
  /\ pc \in {"FETCH_CANDIDATES", "FETCH_FALLBACK_CANDIDATES", "LOG_SEARCH"}
  /\ pc' \in {"FETCH_FALLBACK_CANDIDATES", "LOG_SEARCH", "done"}
  /\ pc' # pc

\* search_documents is straight-line synchronous code: once entered, every
\* store call returns or raises and the function runs on to a return
FairSpec == SeededSpec /\ WF_pc(Advance)

\* ------------------------------------------------------------------------
\* Calls of SpellCorrector.get_query_suggestions
\* ------------------------------------------------------------------------
searchVars == <<docs, search_log, clock, spell_corrector, pc, req, access_filter,
                all_results, fallback_results, query_words, filtered_results,
                final_results, suggestions, envelope, raised, outcome, stages,
                find_calls, suggest_calls, log_calls, log_failed, newest>>

SuggestWords == {Text.w_UI, Text.w_ux, Text.q_api, Text.w_doc, Text.w_plan, Text.w_data, Text.w_zz}

\* the queries of up to MaxWords words
SuggestQueries ==
  {Join(ws, SP) : ws \in UNION {[1..k -> SuggestWords] : k \in 0..MaxWords}}

\* a caller passes a query to get_query_suggestions
SuggestCall(query) ==
  /\ suggest_call.pc = "idle"
  /\ suggest_call' = [pc |-> "called", query |-> query]
  /\ UNCHANGED <<searchVars, autocomplete, store_call, snippet_call, tracker>>

\* get_query_suggestions returns
SuggestReturn ==
  /\ suggest_call.pc = "called"
  /\ suggest_call' = [pc |-> "returned", query |-> suggest_call.query,
                      result |-> spell_corrector[suggest_call.query]]
  /\ UNCHANGED <<searchVars, autocomplete, store_call, snippet_call, tracker>>

\* the caller has taken the result
SuggestDone ==
  /\ suggest_call.pc = "returned"
  /\ suggest_call' = NoCall
  /\ UNCHANGED <<searchVars, autocomplete, store_call, snippet_call, tracker>>

SuggestNext ==
  \/ \E query \in SuggestQueries : SuggestCall(query)
  \/ SuggestReturn
  \/ SuggestDone

\* the corrector of a newly constructed manager
InitSuggest ==
  /\ docs = <<>>
  /\ clock = 1
  /\ Fresh(SuggestQueries, FALSE)

SuggestSpec == InitSuggest /\ [][SuggestNext]_vars

\* ------------------------------------------------------------------------
\* Calls of get_dynamic_suggestions (autocomplete)
\* ------------------------------------------------------------------------
\* The six sources in the order in which get_dynamic_suggestions calls them.
\* What a source finds in the store is an input of the call; scores are in
\* tenths (8.2 is 82).
SOURCES == <<"recent_search", "trending", "content", "document", "prediction", "correction">>

Suggestion(text, type, score) == [text |-> text, type |-> type, score |-> score]

\* texts shared by sources, in the same or another case, with other scores
SharedTexts ==
  << <<Suggestion(<<"P", "l", "a", "n">>, "recent_search", 82)>>,
     <<Suggestion(<<"p", "l", "a", "n">>, "trending", 72)>>,
     <<Suggestion(<<"P", "l", "a", "n", " ", "Q", "3">>, "content", 70)>>,
     <<Suggestion(<<"P", "l", "a", "n", " ", "Q", "3">>, "document", 90), Suggestion(<<"P", "L">>, "document", 90)>>,
     <<>>,
     <<>> >>

\* sources with equal scores, and a logged query that is the partial query
\* followed by a blank
EqualScores ==
  << <<Suggestion(<<"p", "l", "a", "n">>, "recent_search", 90)>>,
     <<Suggestion(<<"p", "l", " ">>, "trending", 72)>>,
     <<>>,
     <<Suggestion(<<"P", "l", "a", "n", " ", "Q", "3">>, "document", 90)>>,
     <<Suggestion(<<"p", "l", " ", "x">>, "prediction", 50)>>,
     <<>> >>

\* no text and no score occurs twice
AllDifferent ==
  << <<Suggestion(<<"p", "l", "a", "n">>, "recent_search", 82)>>,
     <<>>,
     <<Suggestion(<<"P", "l", "a", "n", " ", "Q", "3">>, "content", 70)>>,
     <<Suggestion(<<"P", "l", "a", "n", "s">>, "document", 90)>>,
     <<Suggestion(<<"p", "l", " ", "x">>, "prediction", 50)>>,
     <<>> >>

SourceOutputs == {SharedTexts, EqualScores, AllDifferent}

\* "pl", the same in upper case followed by a blank, and a blank
PartialQueries == {<<"p", "l">>, <<"P", "L", " ">>, <<" ">>}

DEFAULT_LIMIT == 10

\* the loop that removes duplicates, preserving order
RECURSIVE UniqueTexts(_, _, _)
UniqueTexts(all_suggestions, partial_lower, unique_suggestions) ==
  IF all_suggestions = <<>> THEN unique_suggestions
  ELSE LET text_key == Lower(Head(all_suggestions).text)
           seen_texts == {Lower(unique_suggestions[i].text) : i \in DOMAIN unique_suggestions}
       IN  UniqueTexts(Tail(all_suggestions), partial_lower,
             IF text_key \notin seen_texts /\ text_key # partial_lower
               THEN Append(unique_suggestions, Head(all_suggestions))
               ELSE unique_suggestions)

\* variant: the suggestions are left in the order of the merge
SortSuggestions_None(unique_suggestions) == unique_suggestions

\* unique_suggestions.sort(key=score, reverse=True)
SortSuggestions(unique_suggestions) ==
  LET sorted == SortPairsDesc([i \in DOMAIN unique_suggestions |->
                                 <<unique_suggestions[i].score, unique_suggestions[i]>>])
  IN  [i \in DOMAIN sorted |-> sorted[i][2]]

\* deduplication, sort and truncation of the merged list
FinalSuggestions(all_suggestions, partial_lower, limit) ==
  Take(SortSuggestions(UniqueTexts(all_suggestions, partial_lower, <<>>)), limit)

\* variant: the exception of a source leaves the source
SourceExcept_Reraise == [raised |-> TRUE, suggestions |-> <<>>]

\* the except clause of a source: the source returns no suggestion
SourceExcept == [raised |-> FALSE, suggestions |-> <<>>]

\* get_dynamic_suggestions is entered
AutoCall(partial_query, user_email, limit, outputs) ==
  /\ autocomplete.pc = "idle"
  /\ autocomplete' =
       IF partial_query = <<>> \/ Len(Strip(partial_query)) < 1
         THEN [pc |-> "returned", partial_query |-> partial_query,
               user_email |-> user_email, limit |-> limit, outputs |-> outputs,
               k |-> 1, failed |-> {}, all_suggestions |-> <<>>, data |-> <<>>]
         ELSE [pc |-> "merging", partial_query |-> partial_query,
               user_email |-> user_email, limit |-> limit, outputs |-> outputs,
               k |-> 1, failed |-> {}, all_suggestions |-> <<>>, data |-> <<>>]
  /\ UNCHANGED <<searchVars, suggest_call, store_call, snippet_call, tracker>>

\* the next source is called and its suggestions are appended; when the
\* source fails, its except clause answers for it
CallSource(source_ok) ==
  /\ autocomplete.pc = "merging"
  /\ autocomplete.k <= Len(SOURCES)
  /\ LET k == autocomplete.k
         \* the recent searches are looked up for a known actor only
         called == k # 1 \/ autocomplete.user_email # <<>>
         answer == IF source_ok THEN [raised |-> FALSE, suggestions |-> autocomplete.outputs[k]]
                   ELSE SourceExcept
     IN  IF called /\ answer.raised
           THEN autocomplete' = [autocomplete EXCEPT !.pc = "returned", !.data = <<>>,
                                                     !.failed = @ \cup {k}]
           ELSE autocomplete' =
                  [autocomplete EXCEPT
                     !.k = k + 1,
                     !.failed = IF called /\ ~source_ok THEN @ \cup {k} ELSE @,
                     !.all_suggestions = IF called THEN @ \o answer.suggestions ELSE @]
  /\ UNCHANGED <<searchVars, suggest_call, store_call, snippet_call, tracker>>

\* the merged list is deduplicated, sorted and cut, and returned
AutoFinish ==
  /\ autocomplete.pc = "merging"
  /\ autocomplete.k > Len(SOURCES)
  /\ autocomplete' =
       [autocomplete EXCEPT
          !.pc = "returned",
          !.data = FinalSuggestions(autocomplete.all_suggestions,
                                    Strip(Lower(autocomplete.partial_query)),
                                    autocomplete.limit)]
  /\ UNCHANGED <<searchVars, suggest_call, store_call, snippet_call, tracker>>

\* the caller has taken the result
AutoDone ==
  /\ autocomplete.pc = "returned"
  /\ autocomplete' = NoCall
  /\ UNCHANGED <<searchVars, suggest_call, store_call, snippet_call, tracker>>

AutoNext ==
  \/ \E partial_query \in PartialQueries, user_email \in {<<>>, Text.e_a}, limit \in Limits \cup {DEFAULT_LIMIT}, outputs \in SourceOutputs : AutoCall(partial_query, user_email, limit, outputs)
  \/ \E source_ok \in BOOLEAN : CallSource(source_ok)
  \/ AutoFinish
  \/ AutoDone

AutoSpec == Init /\ [][AutoNext]_vars

\* ------------------------------------------------------------------------
\* The autocomplete sources that read the documents
\* ------------------------------------------------------------------------
\* variant: the documents of every reader are looked at
_get_document_suggestions_AnyReader(partial_query, user_email, limit) ==
  LET Readable(doc) == doc.sync_status = TRUE
      found == Take(SelectSeq(docs, Readable), 50)
      partial_lower == Lower(partial_query)
      Matching(doc) == doc.title # <<>> /\ Contains(partial_lower, Lower(doc.title))
      matching == SelectSeq(found, Matching)
  IN  Take([i \in DOMAIN matching |-> Suggestion(matching[i].title, "document", 90)], limit)

\* _get_document_suggestions: the titles of the synced documents of the
\* actor that contain the partial query
_get_document_suggestions(partial_query, user_email, limit) ==
  LET Readable(doc) ==
        /\ doc.sync_status = TRUE
        /\ user_email # <<>> =>
             \/ InList(Lower(user_email), doc.user_emails_with_access)
             \/ InList(Lower(user_email), doc.access_control.authorized_emails)
      found == Take(SelectSeq(docs, Readable), 50)
      partial_lower == Lower(partial_query)
      Matching(doc) == doc.title # <<>> /\ Contains(partial_lower, Lower(doc.title))
      matching == SelectSeq(found, Matching)
  IN  Take([i \in DOMAIN matching |-> Suggestion(matching[i].title, "document", 90)], limit)

\* _get_content_based_suggestions: phrases of one to three words from the
\* titles of the synced documents of the actor whose title, content or
\* searchable text contains the partial query; a title is used once
_get_content_based_suggestions(partial_query, user_email, limit) ==
  LET Readable(doc) ==
        /\ doc.sync_status = TRUE
        /\ user_email # <<>> =>
             \/ InList(Lower(user_email), doc.user_emails_with_access)
             \/ InList(Lower(user_email), doc.access_control.authorized_emails)
      found == Take(SelectSeq(docs, Readable), 50)
      partial_lower == Lower(partial_query)
      Wanted(phrase) ==
        /\ Len(phrase) > Len(partial_query)
        /\ Contains(partial_lower, Lower(phrase))
        /\ Lower(phrase) # partial_lower
      RECURSIVE phrases(_, _, _)
      phrases(title_words, i, j) ==
        IF i > Len(title_words) THEN <<>>
        ELSE IF j > Len(title_words) \/ j > i + 2 THEN phrases(title_words, i + 1, i + 1)
        ELSE (IF Wanted(Join(SubSeq(title_words, i, j), SP))
                THEN <<Suggestion(Join(SubSeq(title_words, i, j), SP), "content", 60 + 5 * (j - i + 1))>>
                ELSE <<>>)
             \o phrases(title_words, i, j + 1)
      RECURSIVE scan(_, _)
      scan(k, seen_titles) ==
        IF k > Len(found) THEN <<>>
        ELSE LET doc == found[k]
                 matches == \/ Contains(partial_lower, Lower(doc.title))
                            \/ Contains(partial_lower, Lower(doc.content))
                            \/ Contains(partial_lower, Lower(doc.searchable_text))
             IN  IF matches /\ doc.title # <<>> /\ Lower(doc.title) \notin seen_titles
                   THEN phrases(Split(doc.title), 1, 1) \o scan(k + 1, seen_titles \cup {Lower(doc.title)})
                   ELSE scan(k + 1, seen_titles)
  IN  Take(scan(1, {}), limit)

\* the manager is constructed over a collection that holds, for the partial
\* query "pl": a synced document of the first actor with the word in its
\* title, a synced document of both actors with the word in its content, a
\* document of both whose sync has failed and a synced document of the
\* second actor, these two with another title that holds the word
InitTitles ==
  /\ docs = [i \in 1..4 |->
               LET doc_data == <<DocData1, DocData2, DocData3,
                                 [DocData3 EXCEPT !.id = "d6", !.sync_successful = TRUE,
                                                  !.user_emails_with_access = <<Text.e_b>>]>>[i]
               IN  ("_id" :> i) @@ _store_single_document(doc_data, doc_data.title, doc_data.content,
                                                          ExtractAuthorEmail(doc_data),
                                                          SyncStatus(doc_data), i)]
  /\ clock = 5
  /\ Fresh({}, FALSE)

\* calls of get_dynamic_suggestions over that collection: the content and
\* the document source read the documents; the actor has searched for the
\* title of a document before, the other sources find nothing
TitlesNext ==
  \/ \E partial_query \in PartialQueries, user_email \in {<<>>, Text.e_a, Text.e_A, Text.e_b, <<"B", "@", "x">>}, limit \in Limits \cup {DEFAULT_LIMIT} :
       AutoCall(partial_query, user_email, limit,
                [k \in 1..6 |->
                   IF k = 1 THEN <<Suggestion(DocData3.title, "recent_search", 82)>>
                   ELSE IF k = 3 THEN _get_content_based_suggestions(Strip(Lower(partial_query)), user_email, 4)
                   ELSE IF k = 4 THEN _get_document_suggestions(Strip(Lower(partial_query)), user_email, 3)
                   ELSE <<>>])
  \/ \E source_ok \in BOOLEAN : CallSource(source_ok)
  \/ AutoFinish
  \/ AutoDone

TitlesSpec == InitTitles /\ [][TitlesNext]_vars

\* ------------------------------------------------------------------------
\* Calls of store_document, with the chunking of large documents
\* ------------------------------------------------------------------------
\* The records stored by the searches of the model, a record whose content is
\* one character longer than MAX_CONTENT_SIZE and whose author is written in
\* upper case, and a record without author whose first reader has no '@'.
StoreInputs ==
  DocInputs \cup
  {[DocData1 EXCEPT !.id = "d4", !.content = [i \in 1..(MAX_CONTENT_SIZE + 1) |-> "x"],
                    !.author_email = Text.e_A, !.user_emails_with_access = <<Text.e_b>>],
   [DocData3 EXCEPT !.id = "d5", !.user_emails_with_access = <<Text.e_bob, Text.e_A>>]}

\* _split_content_into_chunks for a content without blank, line break and
\* punctuation (the large content of the model): the paragraph and the
\* sentence pass hand the whole text to _split_by_characters, which finds no
\* break point and cuts after every max_chunk_size characters
RECURSIVE _split_content_into_chunks(_, _)
_split_content_into_chunks(content, max_chunk_size) ==
  IF Len(content) <= max_chunk_size THEN <<content>>
  ELSE <<SubSeq(content, 1, max_chunk_size)>>
         \o _split_content_into_chunks(SubSeq(content, max_chunk_size + 1, Len(content)),
                                       max_chunk_size)

\* the chunk_document built by _store_single_chunk
_store_single_chunk(doc_data, title, chunk_content, author_email, sync_status, current_timestamp, chunk_num, total_chunks) ==
  LET authorized_emails == AuthorizedEmails(doc_data, author_email)
  IN  [id |-> <<doc_data.id, "chunk", chunk_num>>,
       title |-> <<title, "Part", chunk_num, total_chunks>>,
       content |-> chunk_content,
       tool |-> doc_data.tool,
       sync_status |-> sync_status,
       last_sync_updated |-> current_timestamp,
       integration_type |-> doc_data.integration_type,
       file_url |-> doc_data.file_url,
       user_emails_with_access |-> authorized_emails,
       external_user_id |-> doc_data.external_user_id,
       account_id |-> doc_data.account_id,
       author_email |-> author_email,
       access_control |->
         [account_id |-> doc_data.account_id,
          external_user_id |-> doc_data.external_user_id,
          authorized_emails |-> authorized_emails],
       is_chunked |-> TRUE,
       chunk_info |-> [total_chunks |-> total_chunks, chunk_number |-> chunk_num,
                       original_size |-> Len(doc_data.content),
                       parent_document_id |-> doc_data.id],
       searchable_text |-> Take(title \o SP \o chunk_content, 4000)]

\* the end of _store_chunked_document_safe when no attempt has stored a chunk
MetadataOnly ==
  [ok |-> TRUE, message |-> "Stored metadata only - content too large for chunking",
   records |-> <<>>]

\* _store_chunked_document_safe from attempt number attempt on; Head(accepts)[n]
\* is whether the store accepts the insert of chunk n in this attempt;
\* records are the chunk documents inserted
RECURSIVE _store_chunked_document_safe(_, _, _, _, _, _, _)
_store_chunked_document_safe(doc_data, author_email, sync_status, current_timestamp, chunk_all, accepts, attempt) ==
  LET chunk_sizes_to_try == <<MAX_CONTENT_SIZE, 3000, 2000, 1500, 1000>>
  IN   IF attempt > Len(chunk_sizes_to_try) THEN MetadataOnly
      ELSE LET all_chunks == _split_content_into_chunks(doc_data.content, chunk_sizes_to_try[attempt])
               total_chunks == Len(all_chunks)
               chunks == IF chunk_all THEN all_chunks ELSE Take(all_chunks, 1)
               stored == SelectSeq([n \in DOMAIN chunks |-> n], LAMBDA n : Head(accepts)[n])
           IN  IF stored # <<>>
                 THEN [ok |-> TRUE,
                       message |-> IF chunk_all THEN "Stored chunks successfully"
                                   ELSE "Stored first chunk only",
                       records |-> [k \in DOMAIN stored |->
                                      _store_single_chunk(doc_data, doc_data.title, chunks[stored[k]],
                                                          author_email, sync_status, current_timestamp,
                                                          stored[k], total_chunks)]]
                 ELSE _store_chunked_document_safe(doc_data, author_email, sync_status,
                                                   current_timestamp, chunk_all, Tail(accepts),
                                                   attempt + 1)

\* store_document(doc_data): accepts[a][n] is whether the store accepts the
\* insert of chunk n in attempt a (the one insert of a small document is
\* insert 1 of attempt 1)
StoreCall(doc_data, accepts) ==
  /\ store_call.pc = "idle"
  /\ clock <= MaxDocs
  /\ LET author_email == ExtractAuthorEmail(doc_data)
         sync_status == SyncStatus(doc_data)
         result ==
           IF Len(doc_data.content) <= MAX_CONTENT_SIZE
             THEN IF accepts[1][1]
                    THEN [ok |-> TRUE, message |-> "Success",
                          records |-> <<_store_single_document(doc_data, doc_data.title,
                                          doc_data.content, author_email, sync_status, clock)>>]
                    ELSE [ok |-> FALSE, message |-> "insert failed", records |-> <<>>]
             ELSE _store_chunked_document_safe(doc_data, author_email, sync_status, clock,
                                               store_call.chunk_all, accepts, 1)
     IN  /\ docs' = docs \o [k \in DOMAIN result.records |->
                                ("_id" :> Len(docs) + k) @@ result.records[k]]
         /\ store_call' = [pc |-> "returned", chunk_all |-> store_call.chunk_all,
                           doc_data |-> doc_data, ok |-> result.ok,
                           message |-> result.message, before |-> docs]
  /\ clock' = clock + 1
  /\ UNCHANGED <<search_log, spell_corrector, pc, req, envelope, raised, outcome>>
  /\ UNCHANGED localVars
  /\ UNCHANGED ghostVars
  /\ UNCHANGED <<suggest_call, autocomplete, snippet_call, tracker>>

\* the caller has taken the result
StoreDone ==
  /\ store_call.pc = "returned"
  /\ store_call' = [pc |-> "idle", chunk_all |-> store_call.chunk_all]
  /\ UNCHANGED <<searchVars, suggest_call, autocomplete, snippet_call, tracker>>

\* what the store does with the inserts of a call: it accepts all, none, all
\* but the first of every attempt, or none but the first of every attempt
StoreNext ==
  \/ \E doc_data \in StoreInputs, first \in BOOLEAN, others \in BOOLEAN : StoreCall(doc_data, [a \in 1..5 |-> [n \in 1..5 |-> IF n = 1 THEN first ELSE others]])
  \/ StoreDone

\* the manager is constructed over an empty collection, with either value of
\* chunk_all
InitStore ==
  /\ docs = <<>>
  /\ clock = 1
  /\ \E chunk_all \in BOOLEAN : Fresh({}, chunk_all)

StoreSpec == InitStore /\ [][StoreNext]_vars

\* ------------------------------------------------------------------------
\* Calls of _generate_enhanced_snippet and _highlight_text
\* ------------------------------------------------------------------------
\* variant: a word counts once in a window however often it occurs
StrCount_Once(text, word) == IF Contains(word, text) THEN 1 ELSE 0

\* str.count(word): the number of non-overlapping occurrences
RECURSIVE StrCount(_, _)
StrCount(text, word) ==
  IF Len(text) < Len(word) THEN 0
  ELSE IF SubSeq(text, 1, Len(word)) = word
         THEN 1 + StrCount(SubSeq(text, Len(word) + 1, Len(text)), word)
         ELSE StrCount(Tail(text), word)

\* re.compile(re.escape(word), re.IGNORECASE).sub(lambda m: f"**{m.group()}**", text)
RECURSIVE Highlight(_, _)
Highlight(text, word) ==
  IF Len(text) < Len(word) THEN text
  ELSE IF Lower(SubSeq(text, 1, Len(word))) = Lower(word)
         THEN <<"*", "*">> \o SubSeq(text, 1, Len(word)) \o <<"*", "*">>
                \o Highlight(SubSeq(text, Len(word) + 1, Len(text)), word)
         ELSE <<Head(text)>> \o Highlight(Tail(text), word)

\* the highlighting loop: every word that occurs in text is substituted in
\* what the earlier words have left
RECURSIVE HighlightWords(_, _, _)
HighlightWords(highlighted, text, tokens) ==
  IF tokens = <<>> THEN highlighted
  ELSE HighlightWords(IF Contains(Lower(Head(tokens)), Lower(text))
                        THEN Highlight(highlighted, Head(tokens))
                        ELSE highlighted,
                      text, Tail(tokens))

_highlight_text(text, tokens) ==
  IF tokens = <<>> \/ text = <<>> THEN text
  ELSE HighlightWords(text, text, tokens)

ELLIPSIS == <<".", ".", ".">>

\* variant: a call answers from what the call before it has left behind
_generate_enhanced_snippet_Sticky(content, tokens, max_length) ==
  IF "result" \in DOMAIN snippet_call /\ snippet_call.result # <<>>
    THEN snippet_call.result
    ELSE Take(content, max_length)

_generate_enhanced_snippet(content, tokens, max_length) ==
  IF content = <<>>
    THEN <<"N","o"," ","c","o","n","t","e","n","t"," ","a","v","a","i","l","a","b","l","e">>
  ELSE IF tokens = <<>>
    THEN Take(content, max_length) \o (IF Len(content) > max_length THEN ELLIPSIS ELSE <<>>)
  ELSE
    LET content_lower == Lower(content)
        step_size == max_length \div 4
        stop == IF Len(content) - max_length + 1 > 1 THEN Len(content) - max_length + 1 ELSE 1
        score(i) ==
          LET snippet_text == SubSeq(content_lower, i + 1, IF i + max_length < Len(content)
                                                            THEN i + max_length ELSE Len(content))
              RECURSIVE sum(_)
              sum(ws) == IF ws = <<>> THEN 0
                            ELSE StrCount(snippet_text, Lower(Head(ws))) + sum(Tail(ws))
          IN  sum(tokens)
        RECURSIVE best(_, _, _)
        best(i, best_pos, best_score) ==
          IF i >= stop THEN best_pos
          ELSE IF score(i) > best_score THEN best(i + step_size, i, score(i))
          ELSE best(i + step_size, best_pos, best_score)
        best_pos == best(0, 0, 0)
        snippet == SubSeq(content, best_pos + 1, IF best_pos + max_length < Len(content)
                                                   THEN best_pos + max_length ELSE Len(content))
    IN  (IF best_pos > 0 THEN ELLIPSIS ELSE <<>>)
          \o HighlightWords(snippet, snippet, tokens)
          \o (IF best_pos + max_length < Len(content) THEN ELLIPSIS ELSE <<>>)

\* contents: empty, one short window long, with the words in both cases
\* and ties between the windows, with the words late
SnippetTexts ==
  {<<>>,
   <<"P","l","a","n">>,
   <<"z","z"," ","p","l","a","n"," ","P","L","A","N"," ","z","z","z">>,
   <<"p","l"," ","z","z","z","z","z","z","z","z","p","l","a","n","p","l","a","n","z">>}

\* token lists: empty, one word, a word twice, a word and its prefix in both
\* orders, a word in upper case and a second word
SnippetWords ==
  {<<>>,
   <<Text.w_plan>>,
   <<Text.w_plan, Text.w_plan>>,
   <<Text.w_plan, <<"p","l">>>>,
   <<<<"p","l">>, Text.w_plan>>,
   <<Text.w_Plan, Text.w_zz>>}

\* a call of _generate_enhanced_snippet (kind "snippet") or of
\* _highlight_text (kind "title", max_length unused) and its return.  The
\* first call and whether another call has followed it are remembered.
SnippetCall(kind, text, tokens, max_length) ==
  /\ snippet_call.pc = "idle"
  /\ LET input == [kind |-> kind, text |-> text, tokens |-> tokens,
                   max_length |-> max_length]
         result == IF kind = "snippet"
                     THEN _generate_enhanced_snippet(text, tokens, max_length)
                     ELSE _highlight_text(text, tokens)
         known == "first" \in DOMAIN snippet_call
     IN  snippet_call' =
           [pc |-> "returned", input |-> input, result |-> result,
            first |-> IF known THEN snippet_call.first ELSE [input |-> input, result |-> result],
            others |-> known /\ (snippet_call.others \/ snippet_call.input # snippet_call.first.input)]
  /\ UNCHANGED <<searchVars, suggest_call, autocomplete, store_call, tracker>>

\* the caller has taken the result
SnippetDone ==
  /\ snippet_call.pc = "returned"
  /\ snippet_call' = [snippet_call EXCEPT !.pc = "idle"]
  /\ UNCHANGED <<searchVars, suggest_call, autocomplete, store_call, tracker>>

SnippetNext ==
  \/ \E text \in SnippetTexts, tokens \in SnippetWords, max_length \in {4, MaxSnippet} : SnippetCall("snippet", text, tokens, max_length)
  \/ \E text \in {t \in SnippetTexts : Len(t) <= 16}, tokens \in SnippetWords : SnippetCall("title", text, tokens, 0)
  \/ SnippetDone

SnippetSpec == Init /\ [][SnippetNext]_vars

\* ------------------------------------------------------------------------
\* AnalyticsTracker (analytics/analytics_tracker.py): the bounded histories
\* ------------------------------------------------------------------------
SEARCH_HISTORY_SIZE == 1000

DOCUMENT_VIEWS_SIZE == 100

\* track_search_query, as far as the search history goes; the time of the
\* call is its number
track_search_query(metrics, query, user_email, results_count, success) ==
  LET search_record == [query |-> Lower(query), user_email |-> user_email,
                        timestamp |-> metrics.total_searches + 1,
                        results_count |-> results_count, success |-> success]
      appended == Append(metrics.search_queries, search_record)
  IN  [metrics EXCEPT !.total_searches = @ + 1,
                      !.search_queries = IF Len(appended) > SEARCH_HISTORY_SIZE
                                           THEN SubSeq(appended, Len(appended) - SEARCH_HISTORY_SIZE + 1, Len(appended))
                                           ELSE appended]

\* variant: the oldest views are kept
track_document_access_KeepsOldest(metrics, document_title, document_id, user_email, access_method) ==
  LET view_record == [document_title |-> document_title, document_id |-> document_id,
                      user_email |-> user_email, access_method |-> access_method,
                      timestamp |-> metrics.total_document_accesses + 1]
      appended == Append(metrics.recent_document_views, view_record)
  IN  [metrics EXCEPT !.total_document_accesses = @ + 1,
                      !.recent_document_views = Take(appended, DOCUMENT_VIEWS_SIZE)]

\* track_document_access, as far as the recent views go
track_document_access(metrics, document_title, document_id, user_email, access_method) ==
  LET view_record == [document_title |-> document_title, document_id |-> document_id,
                      user_email |-> user_email, access_method |-> access_method,
                      timestamp |-> metrics.total_document_accesses + 1]
      appended == Append(metrics.recent_document_views, view_record)
  IN  [metrics EXCEPT !.total_document_accesses = @ + 1,
                      !.recent_document_views = IF Len(appended) > DOCUMENT_VIEWS_SIZE
                                                  THEN SubSeq(appended, Len(appended) - DOCUMENT_VIEWS_SIZE + 1, Len(appended))
                                                  ELSE appended]

\* the calls of the two methods on one tracker, in any order; the records
\* of a history differ in their timestamps
TrackNext ==
  \/ /\ tracker.total_searches < SEARCH_HISTORY_SIZE + MaxExtra
     /\ tracker' = track_search_query(tracker, Text.q_Plan, Text.e_A, 1, TRUE)
     /\ UNCHANGED <<searchVars, suggest_call, autocomplete, store_call, snippet_call>>
  \/ /\ tracker.total_document_accesses < DOCUMENT_VIEWS_SIZE + MaxExtra
     /\ tracker' = track_document_access(tracker, Text.w_Plan, "d1", Text.e_A, "search_result")
     /\ UNCHANGED <<searchVars, suggest_call, autocomplete, store_call, snippet_call>>

TrackSpec == Init /\ [][TrackNext]_vars

\* ------------------------------------------------------------------------
\* Properties
\* ------------------------------------------------------------------------
Done == pc = "done"

Succeeded == pc = "done" /\ outcome = "success"

\* the results handed to the caller
Results == envelope.results

\* the stored document a result was made from
StoredDoc(oid) == docs[CHOOSE i \in DOMAIN docs : docs[i]._id = oid]

Actor == normalize_email(req.user_email)

Scoped == req.filters.account_id # "" /\ req.filters.external_user_id # ""

\* the actor may read the document: listed in its access list or its author
MayRead(d, actor) == InList(actor, d.user_emails_with_access) \/ d.author_email = actor

\* the document is authorized for the actor under the external identity
AuthorizedUnder(d, actor, identity) ==
  \/ /\ d.access_control.external_user_id = identity
     /\ InList(actor, d.access_control.authorized_emails)
  \/ /\ d.external_user_id = identity
     /\ InList(actor, d.user_emails_with_access)

\* C1: every returned document (primary or fallback pass) lists the actor's
\* normalized e-mail in its access list or has it as author e-mail; with both
\* account_id and external identity supplied it also carries that account_id
\* and is authorized under that identity; this for every filter option.
C1_AccessControlled ==
  Done =>
    \A i \in DOMAIN Results :
       LET r == Results[i]
           d == StoredDoc(r._id)
       IN  /\ InList(Actor, r.users_with_access) \/ r.author_email = Actor
           /\ MayRead(d, Actor)
           /\ Scoped =>
                /\ r.account_id = req.filters.account_id
                /\ AuthorizedUnder(d, Actor, req.filters.external_user_id)

\* a fallback result is returned while the store holds a document the actor
\* may not read
C1_Witness ==
  /\ Done
  /\ \E i \in DOMAIN Results : Results[i].is_fallback_result
  /\ \E j \in DOMAIN docs : ~MayRead(docs[j], Actor)

\* C2 as stated: without include_failed_sync every result has
\* sync_status = true, on the primary and on the fallback pass.
C2_Original ==
  (Done /\ ~req.filters.include_failed_sync) =>
    \A i \in DOMAIN Results : Results[i].sync_status = TRUE

\* C2 amended: without include_failed_sync every result that is not a
\* fallback result has sync_status = true (the fallback pass drops the
\* sync_status requirement).
C2_PrimarySynced ==
  (Done /\ ~req.filters.include_failed_sync) =>
    \A i \in DOMAIN Results :
       ~Results[i].is_fallback_result => Results[i].sync_status = TRUE

\* a primary result is returned while the store holds a failed-sync document
\* the actor may read
C2_Witness ==
  /\ Done
  /\ ~req.filters.include_failed_sync
  /\ \E i \in DOMAIN Results : ~Results[i].is_fallback_result
  /\ \E j \in DOMAIN docs : ~docs[j].sync_status /\ MayRead(docs[j], Actor)

\* C3 as stated: an actor e-mail that is absent or has no '@' ends the
\* request in ACTOR_REJECTED with an empty zero-count error envelope and
\* without any store read, suggestion generation or search-log write.
C3_Original ==
  (pc # "idle" /\ (req.user_email = <<>> \/ ~Contains(AT, req.user_email))) =>
    /\ find_calls = 0
    /\ suggest_calls = 0
    /\ log_calls = 0
    /\ Done
    /\ outcome = "rejected"
    /\ Results = <<>>
    /\ envelope.summary.total = 0
    /\ "error" \in DOMAIN envelope.summary

ReportKeys ==
  {"total", "returned", "by_integration", "by_sync_status", "query_words",
   "search_time_ms"}

\* C5 as stated: every envelope, in every terminal outcome, has the keys
\* total, returned, by_integration, by_sync_status, query_words and
\* search_time_ms.
C5_Original == Done => ReportKeys \subseteq DOMAIN envelope.summary

\* C5 amended: the envelope of a request that ends without error has all
\* these keys (with empty or zero values when nothing is found); the envelope
\* of a rejected or failed request has exactly total (0), by_source (empty)
\* and error.
C5_EnvelopeKeys ==
  Done =>
    IF outcome = "success"
      THEN ReportKeys \subseteq DOMAIN envelope.summary
      ELSE /\ DOMAIN envelope.summary = {"total", "by_source", "error"}
           /\ envelope.summary.total = 0
           /\ envelope.summary.by_source = <<>>

\* a request ends without error and without results
C5_Witness ==
  /\ Succeeded
  /\ Results = <<>>
  /\ envelope.summary.returned = 0
  /\ envelope.summary.by_integration = <<>>

\* C6: in every returned result list, under either sort mode, no fallback
\* result is placed before a result that is not a fallback result.
C6_FallbackNeverFirst ==
  Done =>
    \A i, j \in DOMAIN Results :
       i < j => ~(Results[i].is_fallback_result /\ ~Results[j].is_fallback_result)

\* a returned list of at least two results holds a fallback result
C6_Witness ==
  /\ Done
  /\ Len(Results) >= 2
  /\ \E i \in DOMAIN Results : Results[i].is_fallback_result

\* sum of the values of a function with a finite domain
RECURSIVE SumF(_)
SumF(f) ==
  IF DOMAIN f = {} THEN 0
  ELSE LET x == CHOOSE x \in DOMAIN f : TRUE
       IN  f[x] + SumF([y \in DOMAIN f \ {x} |-> f[y]])

\* the terms E, T and P of the score formula, for a document and the request
Tokens == QueryWords(req.query)

\* E, T and P for one document: the text is concatenated and split once
TokenCredit(w, d, text) ==
  CASE ~Contains(w, text) -> 0
    [] Contains(w, Lower(d.title)) -> 3
    [] \/ Contains(w, Lower(d.author_email))
       \/ \E k \in DOMAIN d.user_emails_with_access :
             Contains(w, Lower(d.user_emails_with_access[k])) -> 2
    [] OTHER -> 1

TermsOf(d, text, words, tokens) ==
  [E |-> IF Contains(Lower(req.query), text) THEN 5 ELSE 0,
   T |-> SumF([i \in DOMAIN tokens |-> TokenCredit(tokens[i], d, text)]),
   P |-> Cardinality({p \in (DOMAIN tokens) \X (DOMAIN words) :
                        /\ Len(tokens[p[1]]) >= 4
                        /\ Len(words[p[2]]) >= 4
                        /\ Contains(tokens[p[1]], words[p[2]])})]

Terms(d) ==
  CHOOSE t \in {TermsOf(d, text, Split(text), tokens) :
                  text \in {AllText(d)}, tokens \in {Tokens}} : TRUE

\* the terms of every entry of a list of documents
TermsOfAll(list) == [i \in DOMAIN list |-> Terms(list[i])]

FormulaScore(t) == 2 * (t.E + t.T) + t.P

Tagged(d) == Get(d, "is_fallback_result", FALSE)

\* the primary pass has run
Scored == InList("SCORE_AND_RANK", stages)

\* the fallback pass has run
FellBack == InList("SCORE_FALLBACK", stages)

\* the documents of the store that satisfy the primary filter once their
\* sync_status is disregarded
FallbackPool ==
  {i \in DOMAIN docs : StoreMatches([docs[i] EXCEPT !.sync_status = TRUE], access_filter)}

Min(a, b) == IF a < b THEN a ELSE b

\* C7: the fallback fetch is issued exactly when the primary matching gave
\* nothing and the query has a token; it reads with the primary filter less
\* the sync_status requirement; what it contributes is tagged as fallback with
\* relevance_score 1, and no primary match is tagged.
C7_FallbackPass ==
  /\ pc = "FETCH_FALLBACK_CANDIDATES" =>
       /\ Tokens # <<>>
       /\ filtered_results = <<>>
       /\ find_calls = 1
  /\ (Scored /\ pc \in {"LOG_SEARCH", "done"}) =>
       /\ find_calls = 2 <=>
            /\ Tokens # <<>>
            /\ \A i \in DOMAIN filtered_results : Tagged(filtered_results[i])
       /\ find_calls \in {1, 2}
  /\ FellBack =>
       /\ \A i \in DOMAIN fallback_results :
             \E k \in FallbackPool : docs[k]._id = fallback_results[i]._id
       /\ Len(fallback_results) = Min(Cardinality(FallbackPool), (req.limit * 10) \div 2)
  /\ pc \in {"LOG_SEARCH", "done"} =>
       \A i \in DOMAIN filtered_results :
          /\ Tagged(filtered_results[i]) <=> FellBack
          /\ Tagged(filtered_results[i]) => filtered_results[i].relevance_score = 1
  /\ Succeeded =>
       \A i \in DOMAIN Results :
          /\ Results[i].is_fallback_result <=> FellBack
          /\ Results[i].is_fallback_result => Results[i].relevance_score = 1

\* the fallback pass contributed a failed-sync document to the results
C7_Witness ==
  /\ Succeeded
  /\ FellBack
  /\ \E i \in DOMAIN Results :
        Results[i].is_fallback_result /\ ~Results[i].sync_status

\* the primary matches of the request have just been ranked
Ranked == pc = "LOG_SEARCH" /\ ~FellBack /\ Tokens # <<>>

\* C8 as stated: a matched document containing the whole case-folded query
\* scores strictly higher, and is ranked earlier under relevance sort, than
\* any matched document of the same candidate set without the phrase.
C8_Original ==
  Ranked =>
    \A t \in {TermsOfAll(filtered_results)} :
        \A i, j \in DOMAIN filtered_results :
           (t[i].E = 5 /\ t[j].E = 0) =>
              /\ filtered_results[i].relevance_score > filtered_results[j].relevance_score
              /\ req.sort_by = "relevance" => i < j

\* C8 amended: it does so against every matched document without the phrase
\* whose token and partial credit 2T + P does not exceed its own.
C8_PhraseOutranksEqualCredit ==
  Ranked =>
    \A t \in {TermsOfAll(filtered_results)} :
        \A i, j \in DOMAIN filtered_results :
           (/\ t[i].E = 5
            /\ t[j].E = 0
            /\ 2 * t[i].T + t[i].P >= 2 * t[j].T + t[j].P) =>
              /\ filtered_results[i].relevance_score > filtered_results[j].relevance_score
              /\ req.sort_by = "relevance" => i < j

\* a phrase match and a token-only match of no greater token and partial
\* credit are ranked together
C8_Witness ==
  /\ Ranked
  /\ \E t \in {TermsOfAll(filtered_results)} :
         \E i, j \in DOMAIN filtered_results :
            /\ t[i].E = 5
            /\ t[j].E = 0
            /\ 2 * t[i].T + t[i].P >= 2 * t[j].T + t[j].P
            /\ t[j].T > 0

\* the primary entries of a candidate among the matches
PrimaryEntries(c) ==
  {j \in DOMAIN filtered_results :
     ~Tagged(filtered_results[j]) /\ filtered_results[j]._id = c._id}

\* C9: for a query with a token, a candidate's primary relevance_score is
\* 2 * (E + T) + P, and a candidate with E = T = P = 0 is not among the
\* results.
C9_ScoreFormula ==
  /\ (pc \in {"LOG_SEARCH", "FETCH_FALLBACK_CANDIDATES"} /\ Tokens # <<>>) =>
       \A i \in DOMAIN all_results :
          \A t \in {Terms(all_results[i])} :
             IF t.E = 0 /\ t.T = 0 /\ t.P = 0
               THEN PrimaryEntries(all_results[i]) = {}
               ELSE /\ Cardinality(PrimaryEntries(all_results[i])) = 1
                    /\ \A j \in PrimaryEntries(all_results[i]) :
                          filtered_results[j].relevance_score = FormulaScore(t)
  /\ (Succeeded /\ ~FellBack /\ Tokens # <<>>) =>
       \A i \in DOMAIN Results :
          /\ Results[i]._id = filtered_results[i]._id
          /\ Results[i].relevance_score = filtered_results[i].relevance_score
          /\ Results[i].relevance_score > 0

\* a phrase match with token and partial credit and a token-only match are
\* both returned
C9_Witness ==
  /\ Succeeded
  /\ Tokens # <<>>
  /\ \E i, j \in DOMAIN Results :
        \E a \in {Terms(StoredDoc(Results[i]._id))}, b \in {Terms(StoredDoc(Results[j]._id))} :
            /\ ~Results[i].is_fallback_result
            /\ a.E = 5 /\ a.T > 0 /\ a.P > 0
            /\ Results[i].relevance_score = FormulaScore(a)
            /\ b.E = 0 /\ b.T > 0
            /\ Results[j].relevance_score = FormulaScore(b)

\* the search reads the store right after `newest` was stored with the actor
\* in its access list, and the query is a token of its title
RoundTrip ==
  /\ Succeeded
  /\ newest # NoDocument
  /\ Actor # <<>>
  /\ \E k \in DOMAIN newest.user_emails_with_access :
        normalize_email(newest.user_emails_with_access[k]) = Actor
  /\ InList(req.query, Split(newest.title))
  /\ ~Scoped
  /\ req.filters.apps = <<>> /\ req.filters.author = <<>>
  /\ req.filters.file_types = <<>>
  /\ req.filters.from_date = 0 /\ req.filters.to_date = 0

Returned(d) == \E i \in DOMAIN Results : Results[i]._id = d._id

Visible(d) ==
  /\ d.sync_status \/ req.filters.include_failed_sync
  /\ IF Scoped
       THEN /\ d.account_id = req.filters.account_id
            /\ AuthorizedUnder(d, Actor, req.filters.external_user_id)
       ELSE MayRead(d, Actor)
  /\ req.filters.apps # <<>> => InList(d.tool, req.filters.apps)
  /\ req.filters.author # <<>> =>
       (d.metadata.author = req.filters.author \/ d.author_email = req.filters.author)
  /\ req.filters.file_types # <<>> => InList(d.metadata.type, req.filters.file_types)
  /\ req.filters.from_date # 0 => d.last_sync_updated >= req.filters.from_date
  /\ req.filters.to_date # 0 => d.last_sync_updated <= req.filters.to_date

VisibleDocs == {i \in DOMAIN docs : Visible(docs[i])}

\* a request in browse mode: no word of the query counts as a token, the
\* actor is a valid e-mail, the offset is 0, and the request ended normally
NoValidToken(query) ==
  \A i \in 1..(Len(query) - 1) : ~(IsTokenChar(query[i]) /\ IsTokenChar(query[i + 1]))

Browsed ==
  /\ Succeeded
  /\ NoValidToken(req.query)
  /\ Contains(AT, Actor)
  /\ req.offset = 0

\* C11: in browse mode the results are the `limit` most recently updated
\* visible documents, none dropped by text matching, each with
\* relevance_score 0, newest first, and neither a fallback fetch nor
\* suggestions are produced.
C11_BrowseMode ==
  Browsed =>
    /\ Len(Results) = Min(req.limit, Cardinality(VisibleDocs))
    /\ \A i \in DOMAIN Results :
          /\ \E k \in VisibleDocs : docs[k]._id = Results[i]._id
          /\ Results[i].relevance_score = 0
          /\ ~Results[i].is_fallback_result
          /\ \A k \in VisibleDocs :
                (\A j \in DOMAIN Results : Results[j]._id # docs[k]._id) =>
                   docs[k].last_sync_updated <= Results[i].last_updated
    /\ \A i, j \in DOMAIN Results :
          i < j => Results[i].last_updated >= Results[j].last_updated
    /\ find_calls = 1
    /\ suggest_calls = 0
    /\ envelope.summary.suggestions = <<>>

\* a browse with one-character words returns the newest visible documents
\* and leaves an older one to the limit
C11_Witness ==
  /\ Browsed
  /\ req.query = Text.q_short
  /\ Len(Results) = req.limit
  /\ Cardinality(VisibleDocs) > req.limit

\* the list the store returned to the pass that produced the matches
Fetched == IF FellBack THEN fallback_results ELSE all_results

\* position of a document in a list of documents
Pos(list, oid) == CHOOSE k \in DOMAIN list : list[k]._id = oid

\* C12: under relevance sort the results are in non-increasing
\* relevance_score and equal scores keep the order of the store; under date
\* sort they are in non-increasing last_updated; the results are the first
\* `limit` entries of the sorted list of all matches.
C12_Ordering ==
  Succeeded =>
    /\ Len(Results) = Min(req.limit, Len(filtered_results))
    /\ \A i \in DOMAIN Results : Results[i]._id = filtered_results[i]._id
    /\ \A i, j \in DOMAIN filtered_results :
          i < j =>
            \A a \in {filtered_results[i]}, b \in {filtered_results[j]} :
               /\ req.sort_by = "relevance" =>
                    /\ Get(a, "relevance_score", 0) >= Get(b, "relevance_score", 0)
                    /\ Get(a, "relevance_score", 0) = Get(b, "relevance_score", 0) =>
                         Pos(Fetched, a._id) < Pos(Fetched, b._id)
               /\ req.sort_by = "date" => a.last_sync_updated >= b.last_sync_updated
    /\ \A i, j \in DOMAIN Results :
          i < j =>
            /\ req.sort_by = "relevance" =>
                 Results[i].relevance_score >= Results[j].relevance_score
            /\ req.sort_by = "date" => Results[i].last_updated >= Results[j].last_updated

\* two primary matches of equal score are returned under relevance sort
C12_Witness ==
  /\ Succeeded
  /\ Len(Results) >= 2
  /\ req.sort_by = "relevance"
  /\ Results[1].relevance_score = Results[2].relevance_score
  /\ Results[1].relevance_score > 1

\* ------------------------------------------------------------------------
\* C13  stages of a request and its termination
\* ------------------------------------------------------------------------
StageOrder ==
  <<"VALIDATE_ACTOR", "BUILD_FILTER", "FETCH_CANDIDATES", "SCORE_AND_RANK",
    "FETCH_FALLBACK_CANDIDATES", "SCORE_FALLBACK", "GENERATE_SUGGESTIONS",
    "ASSEMBLE_ENVELOPE">>

StageIndex(stage) == CHOOSE k \in DOMAIN StageOrder : StageOrder[k] = stage

Passed(stage) == InList(stage, stages)

InFlight == pc \notin {"idle", "done"}

\* no stage is revisited or taken out of order, the conditional stages are
\* taken only under their conditions, and a finished request has the stages
\* of its outcome
StagesInOrder ==
  /\ \A i \in DOMAIN stages : InList(stages[i], StageOrder)
  /\ \A i, j \in DOMAIN stages :
       i < j => StageIndex(stages[i]) < StageIndex(stages[j])
  /\ pc # "idle" => stages # <<>> /\ stages[1] = "VALIDATE_ACTOR"
  /\ \A k \in 2..4 : Passed(StageOrder[k]) => Passed(StageOrder[k - 1])
  /\ Passed("FETCH_FALLBACK_CANDIDATES") =>
       /\ Passed("SCORE_AND_RANK")
       /\ NoValidToken(req.query) = FALSE
       /\ \A i \in DOMAIN filtered_results : Tagged(filtered_results[i])
  /\ Passed("SCORE_FALLBACK") => Passed("FETCH_FALLBACK_CANDIDATES")
  /\ Passed("GENERATE_SUGGESTIONS") =>
       /\ Passed("SCORE_AND_RANK")
       /\ Len(filtered_results) < 3
       /\ suggest_calls = 1
  /\ Passed("ASSEMBLE_ENVELOPE") => Passed("SCORE_AND_RANK") /\ Succeeded

\* a finished request is in one terminal state and holds its one envelope
Terminal ==
  /\ Done <=> envelope # NoEnvelope
  /\ Done => /\ outcome \in {"success", "rejected", "error"}
             /\ ~raised
             /\ outcome = "success" => stages[Len(stages)] = "ASSEMBLE_ENVELOPE"
             /\ outcome = "rejected" => stages = <<"VALIDATE_ACTOR">> /\ find_calls = 0
             /\ outcome = "error" =>
                  stages[Len(stages)] \in {"FETCH_CANDIDATES", "FETCH_FALLBACK_CANDIDATES"}
             /\ req.user_email = <<>> => outcome = "rejected"

\* the envelope is written once, by the step that ends the request, and the
\* stages of a request only grow
OneEnvelope ==
  /\ envelope' # envelope =>
       \/ pc # "done" /\ pc' = "done"
       \/ pc = "done" /\ pc' = "idle" /\ envelope' = NoEnvelope
  /\ pc' # "idle" =>
       /\ Len(stages') >= Len(stages)
       /\ SubSeq(stages', 1, Len(stages)) = stages

Count == Len(filtered_results)

\* the rewrites the engine produces for the query of the request
Rewrites == spell_corrector[req.query]

AsSuggestions(rewrites) == [i \in DOMAIN rewrites |-> [query |-> rewrites[i]]]

\* C14 as stated: below 3 results the engine is invoked and its rewrites are
\* attached; from 3 results on the suggestions are empty
C14_Original ==
  Succeeded =>
    /\ Count < 3 =>
         /\ suggest_calls = 1
         /\ envelope.summary.suggestions = AsSuggestions(Rewrites)
    /\ Count >= 3 => envelope.summary.suggestions = <<>>

\* C14 (amended): when the count is below 3 and the query has a token, the
\* engine is invoked once on the query and the first two of its rewrites are
\* attached, in its order; when the count is 3 or more, or the query has no
\* token, the engine is not invoked and the suggestions list is empty
C14_Suggestions ==
  Succeeded =>
    IF Count < 3 /\ ~NoValidToken(req.query)
      THEN /\ suggest_calls = 1
           /\ envelope.summary.suggestions = AsSuggestions(Take(Rewrites, 2))
      ELSE /\ suggest_calls = 0
           /\ envelope.summary.suggestions = <<>>

\* a search with no result whose query has three rewrites: two are attached
C14_Witness ==
  /\ Succeeded
  /\ Count < 3
  /\ Len(Rewrites) = 3
  /\ Len(envelope.summary.suggestions) = 2

\* ------------------------------------------------------------------------
\* C15  get_query_suggestions
\* ------------------------------------------------------------------------
Suggested == suggest_call.pc = "returned"

\* the words of the case-folded query
WordsOf(query) == Split(Lower(query))

Distinct(list) == \A i, j \in DOMAIN list : i # j => list[i] # list[j]

\* entry has the words of the query but for one position
OneWordChanged(entry, words) ==
  /\ Len(Split(entry)) = Len(words)
  /\ Cardinality({i \in DOMAIN words : Split(entry)[i] # words[i]}) = 1

\* entry is the query with the word at one position replaced by one or more
\* other words
OneWordReplaced(entry, words) ==
  \E i \in DOMAIN words :
    \E k \in {Len(Split(entry)) - Len(words) + 1} :
      /\ k >= 1
      /\ SubSeq(Split(entry), 1, i - 1) = SubSeq(words, 1, i - 1)
      /\ SubSeq(Split(entry), i + k, Len(Split(entry))) = SubSeq(words, i + 1, Len(words))
      /\ SubSeq(Split(entry), i, i + k - 1) # <<words[i]>>

\* what holds of every result: at most 5 entries, pairwise distinct, never
\* the unchanged query
Bounded(query, result) ==
  /\ Len(result) <= 5
  /\ Distinct(result)
  /\ \A i \in DOMAIN result :
       /\ result[i] # Lower(query)
       /\ result[i] # Join(WordsOf(query), SP)

\* C15 as stated: the entries of a multi-word query have as many words as
\* the query and differ from it in exactly one position
C15_Original ==
  Suggested =>
    \A words \in {WordsOf(suggest_call.query)} :
      /\ Bounded(suggest_call.query, suggest_call.result)
      /\ Len(words) > 1 =>
           \A i \in DOMAIN suggest_call.result :
             OneWordChanged(suggest_call.result[i], words)

\* C15 (amended): get_query_suggestions returns at most 5 pairwise-distinct
\* entries and never the unchanged case-folded query; for a single-word query
\* no entry is the word; for a multi-word query every entry is the query
\* with exactly one word replaced by a suggestion for it, which may be a
\* phrase of several words, the other words kept in their order
C15_QuerySuggestions ==
  Suggested =>
    \A words \in {WordsOf(suggest_call.query)} :
      /\ Bounded(suggest_call.query, suggest_call.result)
      /\ Len(words) = 1 =>
           \A i \in DOMAIN suggest_call.result : suggest_call.result[i] # words[1]
      /\ Len(words) > 1 =>
           \A i \in DOMAIN suggest_call.result :
             OneWordReplaced(suggest_call.result[i], words)
      /\ Len(words) = 0 => suggest_call.result = <<>>

\* a two-word query with four rewrites, one of them longer than the query
C15_Witness ==
  /\ Suggested
  /\ Len(WordsOf(suggest_call.query)) = 2
  /\ Len(suggest_call.result) = 4
  /\ \E i \in DOMAIN suggest_call.result :
       Len(Split(suggest_call.result[i])) = 3

\* ------------------------------------------------------------------------
\* C16: for every partial query, actor, limit and outputs of the six
\* sources, the list returned by autocomplete has no two entries whose texts
\* are equal ignoring case, and no entry whose text equals the case-folded
\* partial query.
\* ------------------------------------------------------------------------
AutoReturned == autocomplete.pc = "returned"

NoTwoEqualIgnoringCase(data) ==
  \A i, j \in DOMAIN data : Lower(data[i].text) = Lower(data[j].text) => i = j

C16_Original ==
  AutoReturned =>
    /\ NoTwoEqualIgnoringCase(autocomplete.data)
    /\ \A i \in DOMAIN autocomplete.data :
         autocomplete.data[i].text # Lower(autocomplete.partial_query)

\* what the code ensures: no duplicates ignoring case, and no text that is,
\* ignoring case, the partial query without its surrounding blanks
C16_Trimmed ==
  AutoReturned =>
    /\ NoTwoEqualIgnoringCase(autocomplete.data)
    /\ \A i \in DOMAIN autocomplete.data :
         Lower(autocomplete.data[i].text) # Strip(Lower(autocomplete.partial_query))

\* the partial query "PL " is answered with the suggestion "pl "
C16_Witness ==
  /\ AutoReturned
  /\ autocomplete.partial_query = <<"P", "L", " ">>
  /\ \E i \in DOMAIN autocomplete.data : autocomplete.data[i].text = <<"p", "l", " ">>

\* ------------------------------------------------------------------------
\* C17: when any subset of the six sources fails, autocomplete still
\* returns, each failed source contributes no suggestion, and the result is
\* the deduplication, sort and truncation of the suggestions of the sources
\* that did not fail.
\* ------------------------------------------------------------------------
\* the sources that were called and did not fail
Contributing(call) ==
  {k \in DOMAIN SOURCES : k \notin call.failed /\ (k = 1 => call.user_email # <<>>)}

RECURSIVE MergeFrom(_, _, _)
MergeFrom(k, outputs, sources) ==
  IF k > Len(outputs) THEN <<>>
  ELSE (IF k \in sources THEN outputs[k] ELSE <<>>) \o MergeFrom(k + 1, outputs, sources)

Answered == AutoReturned /\ Strip(autocomplete.partial_query) # <<>>

C17_FailureIsolation ==
  Answered =>
    /\ autocomplete.k = Len(SOURCES) + 1
    /\ autocomplete.data =
         FinalSuggestions(MergeFrom(1, autocomplete.outputs, Contributing(autocomplete)),
                          Strip(Lower(autocomplete.partial_query)), autocomplete.limit)

\* two sources failed, one of them with suggestions to give, and the others
\* are in the result
C17_Witness ==
  /\ Answered
  /\ autocomplete.failed = {2, 4}
  /\ autocomplete.outputs = SharedTexts
  /\ autocomplete.user_email # <<>>
  /\ Len(autocomplete.data) = 2

\* ------------------------------------------------------------------------
\* C18: the final autocomplete list does not depend on the order in which
\* the sources are merged: for the same outputs of the sources, every merge
\* order yields the same list after deduplication, sort by score and
\* truncation to the limit.
\* ------------------------------------------------------------------------
\* the orders in which the sources of a set can be merged
RECURSIVE Orders(_)
Orders(sources) ==
  IF sources = {} THEN {<<>>}
  ELSE UNION {{<<k>> \o order : order \in Orders(sources \ {k})} : k \in sources}

RECURSIVE MergeIn(_, _)
MergeIn(order, outputs) ==
  IF order = <<>> THEN <<>> ELSE outputs[Head(order)] \o MergeIn(Tail(order), outputs)

FoldedTexts(list) == {Lower(list[i].text) : i \in DOMAIN list}

NothingShared(list) ==
  \A i, j \in DOMAIN list :
    i # j => Lower(list[i].text) # Lower(list[j].text) /\ list[i].score # list[j].score

C18_Original ==
  Answered =>
    \A order \in Orders(Contributing(autocomplete)) :
      FinalSuggestions(MergeIn(order, autocomplete.outputs),
                       Strip(Lower(autocomplete.partial_query)), autocomplete.limit)
        = autocomplete.data

\* C18 as the code has it: the sources are merged in the order of SOURCES.
\* Another order gives the same texts, ignoring case, before the truncation,
\* and gives the same list when no text and no score occurs twice.
C18_MergeOrder ==
  Answered =>
    \E partial_lower \in {Strip(Lower(autocomplete.partial_query))} :
    \E merged \in {MergeFrom(1, autocomplete.outputs, Contributing(autocomplete))} :
      /\ autocomplete.all_suggestions = merged
      /\ \A order \in Orders(Contributing(autocomplete)) :
           \E other \in {MergeIn(order, autocomplete.outputs)} :
             /\ FoldedTexts(UniqueTexts(other, partial_lower, <<>>))
                  = FoldedTexts(UniqueTexts(merged, partial_lower, <<>>))
             /\ NothingShared(merged) =>
                  FinalSuggestions(other, partial_lower, autocomplete.limit) = autocomplete.data

\* four sources with different texts and scores have answered, and the list
\* is sorted by score whatever the order of the merge
C18_Witness ==
  /\ Answered
  /\ autocomplete.outputs = AllDifferent
  /\ Contributing(autocomplete) = {1, 2, 3, 4, 5, 6}
  /\ autocomplete.limit = DEFAULT_LIMIT
  /\ Len(autocomplete.data) = 4
  /\ autocomplete.data[1].type = "document"

\* ------------------------------------------------------------------------
\* C19: search is read-only over the store: for every request and every
\* outcome the contents of the store after the request are what they were
\* before it; the search issues no insert, update or delete.
\* ------------------------------------------------------------------------
\* a step of a search: every step but store_document, which is taken
\* between two requests
SearchStepTaken == pc # "idle" \/ pc' # "idle"

UpperOf == [c \in Range(LowerAlpha) |-> UpperAlpha[CHOOSE i \in 1..26 : LowerAlpha[i] = c]]

Upper(s) == [i \in DOMAIN s |-> IF s[i] \in DOMAIN UpperOf THEN UpperOf[s[i]] ELSE s[i]]

\* other spellings of an actor e-mail: lower case without blanks, upper case
\* with a leading blank, and the string itself with a trailing blank
Spellings(user_email) ==
  {Strip(Lower(user_email)), SP \o Upper(Strip(user_email)), user_email \o SP}

\* the results list of the request of the state for another actor string
ResultsFor(user_email) ==
  LET filter == BuildAccessFilter(normalize_email(user_email), req.filters)
      words == QueryWords(req.query)
      primary == TextFilter(Candidates(docs, filter, req.limit * 10, req.offset), req.query, words)
      filtered == IF Starved(primary, words)
                    THEN primary \o FallbackTextFilter(
                           Find(docs, FallbackFilter(filter), (req.limit * 10) \div 2, 0), words)
                    ELSE primary
      processed_results == Take(SortResults(filtered, words, req.sort_by), req.limit)
  IN  [i \in DOMAIN processed_results |-> ResultData(processed_results[i])]

IsNormalized(email) ==
  /\ \E i \in DOMAIN email : email[i] = "@"
  /\ email[1] # " " /\ email[Len(email)] # " "
  /\ \A i \in DOMAIN email : email[i] \notin Range(UpperAlpha)

ListNormalized(document) ==
  \E emails \in {document.user_emails_with_access} :
    /\ \A i \in DOMAIN emails : IsNormalized(emails[i])
    /\ \A i, j \in DOMAIN emails : emails[i] = emails[j] => i = j
    /\ document.access_control.authorized_emails = emails

AuthorListed(document) ==
  \E i \in DOMAIN document.user_emails_with_access :
    document.user_emails_with_access[i] = Strip(Lower(document.author_email))

C21_Original ==
  \A i \in DOMAIN docs : AuthorListed(docs[i]) /\ ListNormalized(docs[i])

\* what the code ensures: the lists are normalized and distinct, and an
\* author with an '@' is listed
C21_Lists ==
  \A i \in DOMAIN docs :
    /\ ListNormalized(docs[i])
    /\ Contains(AT, docs[i].author_email) => AuthorListed(docs[i])

\* the record without author whose first reader is "bob" has been stored
\* with the author "bob", who is not among its authorized e-mails
C21_Witness ==
  \E i \in DOMAIN docs :
    /\ docs[i].id = "d5"
    /\ docs[i].author_email = Text.e_bob
    /\ docs[i].user_emails_with_access = <<Text.e_a>>

\* a chunk of the large record is stored with its author in upper case and
\* listed in lower case
C21_ChunkStored ==
  \E i \in DOMAIN docs :
    /\ docs[i].is_chunked
    /\ docs[i].author_email = Text.e_A
    /\ docs[i].user_emails_with_access = <<Text.e_b, Text.e_a>>

\* ------------------------------------------------------------------------
\* C30: store_document returns (True, ...) only if at least one document or
\* chunk was inserted during the call; when every insert of the call fails,
\* every chunk-size retry of a large document included, it returns
\* (False, error) and the store is unchanged.
\* ------------------------------------------------------------------------
StoreReturned == store_call.pc = "returned"

C30_Original ==
  StoreReturned =>
    /\ store_call.ok => Len(docs) > Len(store_call.before)
    /\ ~store_call.ok => docs = store_call.before

\* what the code ensures: the claim for a document that is not chunked; a
\* failed call leaves the store unchanged; stored records are appended
C30_SmallDocuments ==
  StoreReturned =>
    /\ Len(store_call.doc_data.content) <= MAX_CONTENT_SIZE =>
         (store_call.ok <=> Len(docs) = Len(store_call.before) + 1)
    /\ ~store_call.ok => docs = store_call.before
    /\ SubSeq(docs, 1, Len(store_call.before)) = store_call.before

\* the store has refused every chunk of every attempt, and store_document
\* has returned True with nothing stored
C30_Witness ==
  /\ StoreReturned
  /\ Len(store_call.doc_data.content) > MAX_CONTENT_SIZE
  /\ store_call.ok
  /\ store_call.message = MetadataOnly.message
  /\ docs = store_call.before

\* ------------------------------------------------------------------------
\* C22  Snippet selection.  For a non-empty content and a non-empty token
\* list the snippet is built from the window content[p : p + N], where p
\* is a multiple of N/4 that keeps the window inside the content, the
\* window has the highest total case-insensitive count of token
\* occurrences, it is the earliest such window (p = 0 when no window holds
\* a token), '...' is prepended iff p > 0 and appended iff p + N is less
\* than the length of the content.  With an empty token list the snippet is
\* the first N characters, followed by '...' iff the content is longer.
\* ------------------------------------------------------------------------
SnippetReturned == snippet_call.pc = "returned" /\ snippet_call.input.kind = "snippet"

\* the occurrences of word in text, counted from the left without overlap
RECURSIVE Occurrences(_, _)
Occurrences(text, word) ==
  IF Len(text) < Len(word) THEN 0
  ELSE IF \A k \in 1..Len(word) : LowerChar(text[k]) = LowerChar(word[k])
         THEN 1 + Occurrences([k \in 1..(Len(text) - Len(word)) |-> text[k + Len(word)]], word)
         ELSE Occurrences(Tail(text), word)

WindowAt(text, p, N) == SelectSeq([k \in 1..Len(text) |-> IF k > p /\ k <= p + N THEN <<text[k]>> ELSE <<>>], LAMBDA c : c # <<>>)

Window(text, p, N) == [k \in 1..Len(WindowAt(text, p, N)) |-> WindowAt(text, p, N)[k][1]]

RECURSIVE TotalCount(_, _)
TotalCount(text, words) ==
  IF words = <<>> THEN 0 ELSE Occurrences(text, Head(words)) + TotalCount(text, Tail(words))

WindowStarts(text, N) == {p \in 0..Len(text) : p % (N \div 4) = 0 /\ (p = 0 \/ p + N <= Len(text))}

Unmarked(text) == SelectSeq(text, LAMBDA c : c # "*")

Dots(b) == IF b THEN <<".", ".", ".">> ELSE <<>>

C22_Selection ==
  (SnippetReturned /\ snippet_call.input.text # <<>>) =>
    \E content \in {snippet_call.input.text}, N \in {snippet_call.input.max_length}, words \in {snippet_call.input.tokens} :
      IF words = <<>>
        THEN snippet_call.result = Window(content, 0, N) \o Dots(Len(content) > N)
        ELSE \E p \in WindowStarts(content, N) :
               /\ \A q \in WindowStarts(content, N) :
                    /\ TotalCount(Window(content, q, N), words) <= TotalCount(Window(content, p, N), words)
                    /\ q < p => TotalCount(Window(content, q, N), words) < TotalCount(Window(content, p, N), words)
               /\ Unmarked(snippet_call.result) = Dots(p > 0) \o Window(content, p, N) \o Dots(p + N < Len(content))

\* a snippet for tokens that was cut out of the middle of the content, while
\* an earlier window holds a token as well
C22_Witness ==
  /\ SnippetReturned
  /\ snippet_call.input.tokens # <<>>
  /\ TotalCount(Window(snippet_call.input.text, 0, snippet_call.input.max_length), snippet_call.input.tokens) > 0
  /\ Len(snippet_call.result) > 6
  /\ SubSeq(snippet_call.result, 1, 3) = Dots(TRUE)
  /\ SubSeq(snippet_call.result, Len(snippet_call.result) - 2, Len(snippet_call.result)) = Dots(TRUE)

\* ------------------------------------------------------------------------
\* C23  Highlighting.  For every text and every token list (tokens may
\* repeat, one token may be a part of another), in the returned snippet
\* window and in the highlighted title every case-insensitive occurrence of
\* each token is wrapped in exactly one pair of bold markers, and removing
\* the markers gives back the original window or title.
\* ------------------------------------------------------------------------
HighlightReturned == snippet_call.pc = "returned" /\ snippet_call.input.tokens # <<>> /\ snippet_call.input.text # <<>>

\* the returned text without the ellipses of a snippet
Marked ==
  LET r == snippet_call.result
      a == IF snippet_call.input.kind = "snippet" /\ Len(r) >= 3 /\ SubSeq(r, 1, 3) = Dots(TRUE) THEN 4 ELSE 1
      b == IF snippet_call.input.kind = "snippet" /\ Len(r) >= 3 /\ SubSeq(r, Len(r) - 2, Len(r)) = Dots(TRUE) THEN Len(r) - 3 ELSE Len(r)
  IN  SubSeq(r, a, b)

\* for every character that is not part of a marker, whether it stands
\* between an opening and a closing marker
RECURSIVE Bold(_, _)
Bold(text, open) ==
  IF text = <<>> THEN <<>>
  ELSE IF Len(text) >= 2 /\ text[1] = "*" /\ text[2] = "*" THEN Bold(SubSeq(text, 3, Len(text)), ~open)
  ELSE <<open>> \o Bold(Tail(text), open)

OccursAt(text, word, k) ==
  /\ k + Len(word) - 1 <= Len(text)
  /\ \A j \in 1..Len(word) : LowerChar(text[k + j - 1]) = LowerChar(word[j])

\* the text is some window of the input (the whole of it for a title)
IsWindow(text) ==
  IF snippet_call.input.kind = "title" THEN text = snippet_call.input.text
  ELSE \E p \in 0..Len(snippet_call.input.text) : text = Window(snippet_call.input.text, p, snippet_call.input.max_length)

\* where the occurrences of word start, found from the left without overlap
RECURSIVE Starts(_, _, _)
Starts(text, word, k) ==
  IF k + Len(word) - 1 > Len(text) THEN {}
  ELSE IF OccursAt(text, word, k) THEN {k} \cup Starts(text, word, k + Len(word))
  ELSE Starts(text, word, k + 1)

EveryOccurrenceBold(marked, words) ==
  \A w \in 1..Len(words) :
    \A k \in Starts(Unmarked(marked), words[w], 1) :
      \A j \in k..(k + Len(words[w]) - 1) : Bold(marked, FALSE)[j]

C23_Original ==
  HighlightReturned =>
    /\ IsWindow(Unmarked(Marked))
    /\ EveryOccurrenceBold(Marked, snippet_call.input.tokens)

\* no token twice, and no token that is a part of another one
Separate(words) ==
  \A v, w \in 1..Len(words) : v # w => ~Contains(Lower(words[v]), Lower(words[w]))

\* what the code ensures: removing the markers gives back the window or the
\* title; every occurrence is between markers when the tokens are separate
C23_SeparateTokens ==
  HighlightReturned =>
    /\ IsWindow(Unmarked(Marked))
    /\ Separate(snippet_call.input.tokens) => EveryOccurrenceBold(Marked, snippet_call.input.tokens)

\* a title with a token given twice whose occurrence has been wrapped twice
C23_Witness ==
  /\ HighlightReturned
  /\ snippet_call.input.kind = "title"
  /\ snippet_call.input.tokens = <<Text.w_plan, Text.w_plan>>
  /\ snippet_call.result = <<"*","*","*","*","P","l","a","n","*","*","*","*">>

FetchedInAll == Len(all_results) + Len(fallback_results)

C25_Original == pc # "idle" => FetchedInAll <= 10 * req.limit

\* what the code ensures: at most 10 * L documents in the primary pass, at
\* most half of that in the fallback pass, hence at most 15 * L in all
C25_WorkBound ==
  pc # "idle" =>
    /\ Len(all_results) <= 10 * req.limit
    /\ Len(fallback_results) <= (10 * req.limit) \div 2
    /\ FetchedInAll <= 15 * req.limit

\* a search that has returned after both passes read more than 10 * L
\* documents between them, the fallback pass as many as it may
C25_Witness ==
  /\ Succeeded
  /\ FellBack
  /\ Len(fallback_results) = (10 * req.limit) \div 2
  /\ FetchedInAll > 10 * req.limit

\* ------------------------------------------------------------------------
\* C26  In every envelope of a search that did not fail: returned is the
\* length of the results list and at most min(limit, total); total is the
\* number of matched documents before the limit is applied; the counts per
\* integration sum to returned; synced + failed = returned; status is
\* results_found iff returned > 0 and no_results_found otherwise.
\* ------------------------------------------------------------------------
C26_Summary ==
  Succeeded =>
    \E summary \in {envelope.summary} :
      /\ summary.returned = Len(envelope.results)
      /\ summary.returned <= Min(req.limit, summary.total)
      /\ summary.total = Len(filtered_results)
      /\ SumF(summary.by_integration) = summary.returned
      /\ summary.by_sync_status.synced + summary.by_sync_status.failed = summary.returned
      /\ summary.status = (IF summary.returned > 0 THEN "results_found" ELSE "no_results_found")

\* the limit has cut the matches, and the results returned are of both
\* sync states
C26_Witness ==
  /\ Succeeded
  /\ envelope.summary.returned < envelope.summary.total
  /\ envelope.summary.by_sync_status.synced > 0
  /\ envelope.summary.by_sync_status.failed > 0

\* a search that found nothing has returned
C26_NothingFound ==
  /\ Succeeded
  /\ envelope.summary.returned = 0
  /\ envelope.summary.status = "no_results_found"

\* ------------------------------------------------------------------------
\* C27  After any sequence of track_search_query calls the retained search
\* history holds at most 1000 records, and they are the most recent calls in
\* call order; after any sequence of track_document_access calls
\* recent_document_views holds at most 100 records, the most recent ones in
\* call order.
\* ------------------------------------------------------------------------
\* history holds the last min(calls, size) of the calls 1..calls, in order
MostRecent(history, calls, size) ==
  /\ Len(history) = Min(calls, size)
  /\ \A i \in DOMAIN history : history[i].timestamp = calls - Len(history) + i

C27_BoundedHistories ==
  /\ Len(tracker.search_queries) <= 1000
  /\ MostRecent(tracker.search_queries, tracker.total_searches, 1000)
  /\ Len(tracker.recent_document_views) <= 100
  /\ MostRecent(tracker.recent_document_views, tracker.total_document_accesses, 100)

\* both histories have been trimmed
C27_Witness ==
  /\ tracker.total_searches > 1000
  /\ Len(tracker.search_queries) = 1000
  /\ tracker.search_queries[1].timestamp = tracker.total_searches - 999
  /\ tracker.total_document_accesses > 100
  /\ Len(tracker.recent_document_views) = 100

\* ------------------------------------------------------------------------
\* C28  Search logging across a sequence of requests.  Each search that
\* completes without error (browse-mode and zero-result searches included)
\* appends exactly one record holding the query, the actor e-mail and the
\* returned count to the search log; a search rejected for a missing actor
\* or ended by a store error appends none; a failure to write the log
\* record leaves the returned envelope unchanged.
\* ------------------------------------------------------------------------
\* the envelope a search returns does not depend on the fate of its record:
\* it is the envelope of the step in which the record is written
EnvelopeOf(results, matched, fetched) ==
  SuccessEnvelope(req.query, req.user_email, query_words, fetched, matched, results, suggestions)

C28_LogFailed ==
  /\ Succeeded
  /\ log_failed
  /\ search_log = <<>>
  /\ Results # <<>>

\* ------------------------------------------------------------------------
\* C29  When autocomplete is called with an actor e-mail, every suggestion
\* of type document or content in its result has a text taken from the
\* title of a document that has sync_status = true and lists the actor's
\* e-mail among its authorized e-mails; no such suggestion is derived from
\* a document the actor cannot read.
\* ------------------------------------------------------------------------
\* the synced documents that list the e-mail
ReadableBy(user_email) ==
  {i \in DOMAIN docs :
     /\ docs[i].sync_status = TRUE
     /\ \E k \in DOMAIN docs[i].access_control.authorized_emails :
           docs[i].access_control.authorized_emails[k] = normalize_email(user_email)}

FromDocuments(suggestion) == suggestion.type \in {"document", "content"}

C29_ReadableTitles ==
  (AutoReturned /\ autocomplete.user_email # <<>>) =>
    \A n \in DOMAIN autocomplete.data :
      FromDocuments(autocomplete.data[n]) =>
        \E i \in ReadableBy(autocomplete.user_email) :
          Contains(autocomplete.data[n].text, docs[i].title)

\* suggestions from the documents have been returned to an actor, none of
\* them with the title of a synced document of another actor, although that
\* title holds the partial query
C29_Witness ==
  /\ AutoReturned
  /\ autocomplete.user_email # <<>>
  /\ \E n \in DOMAIN autocomplete.data : FromDocuments(autocomplete.data[n])
  /\ \E i \in DOMAIN docs \ ReadableBy(autocomplete.user_email) :
        /\ docs[i].sync_status = TRUE
        /\ Contains(Strip(Lower(autocomplete.partial_query)), Lower(docs[i].title))
        /\ \A n \in DOMAIN autocomplete.data :
              FromDocuments(autocomplete.data[n]) => autocomplete.data[n].text # docs[i].title

\* a suggestion of type document has been returned
C29_DocumentSuggested ==
  /\ AutoReturned
  /\ autocomplete.user_email # <<>>
  /\ \E n \in DOMAIN autocomplete.data : autocomplete.data[n].type = "document"

====
